---- MODULE Spec2Model ----
(***************************************************************************)
(* Reference population for the Lexical rich-text field of a Strapi        *)
(* plugin: extraction of media / entry references from a serialized        *)
(* document tree (extractReferences), merging of resolved records back     *)
(* into the tree (populateLexicalReferences and its helpers), the change   *)
(* detector (hasReferencesChanged) and the bulk controller (populateBulk). *)
(*                                                                         *)
(* JavaScript objects are functions from the attribute names they carry to *)
(* values; an attribute that is not set is not in the DOMAIN.  Node        *)
(* objects live in a heap (a sequence of cells, the address of a cell is   *)
(* its index), so that object identity and assignment to an attribute of   *)
(* an existing object are expressible.  Arrays of nodes are sequences of   *)
(* addresses.                                                              *)
(***************************************************************************)
EXTENDS Integers, Sequences, FiniteSets, TLC

VARIABLES
  heap,         \* the node objects of the process
  entity,       \* the entity handed to populateLexicalReferences / the extractor
  context,      \* PopulateContext: populatedMedia and populatedEntries
  given,        \* the deep value of entity when it was handed over
  populated,    \* the entity returned by populateLexicalReferences
  repopulated,  \* the entity returned by populating the returned entity again
  refs,         \* the result of extractReferences
  oldRefs,      \* hasReferencesChanged: first argument
  newRefs,      \* hasReferencesChanged: second argument
  changed,      \* hasReferencesChanged: result
  pc,           \* the position of the caller
  store,        \* the documents of the backing store
  request,      \* populateBulk: ctx.request.body
  fetched,      \* populateBulk: entities
  allRefs,      \* populateBulk: allMediaRefs and allEntryRefs
  groups,       \* populateEntryReferences: the groups not yet queried
  results,      \* populateEntryReferences: results
  queries,      \* the findMany calls made so far
  thrown,       \* the positions in queries of the calls that threw
  response,     \* what the controller sent
  calls,        \* the populateLexicalReferences calls in progress
  plugin,       \* StrapiOnChangePlugin: enableReferences, lastReferencesRef.current
  delivered,    \* StrapiOnChangePlugin: the data last passed to onChange
  client        \* batchPopulate: documentIds, i, results and the requests made

bulkVars ==
  <<store, request, fetched, allRefs, groups, results, queries, thrown, response>>

extraVars == <<calls, plugin, delivered, client>>

vars == <<heap, entity, context, given, populated, repopulated, refs,
          oldRefs, newRefs, changed, pc, bulkVars, extraVars>>

----------------------------------------------------------------------------
(* Bounds of the model. *)

\* the largest number of elements (nodes and malformed array elements) of a tree
MaxNodes == 3

\* the largest number of references in an argument of hasReferencesChanged
MaxRefs == 2

\* the largest number of tree elements of the entities of the store together
MaxBulkNodes == 2

----------------------------------------------------------------------------
(* JavaScript values. *)

\* the value of an attribute that is not set
UNDEF == "<undefined>"

\* a value that is truthy and not a string
JSNUM == "<number>"

IsString(v) == v \notin {UNDEF, JSNUM}

Truthy(v) == v \notin {UNDEF, ""}

\* o[k], undefined when o has no attribute k
Get(o, k) == IF k \in DOMAIN o THEN o[k] ELSE UNDEF

\* {...o, ...p}
Spread(o, p) ==
  [k \in (DOMAIN o) \cup (DOMAIN p) |-> IF k \in DOMAIN p THEN p[k] ELSE o[k]]

EmptyObject == [k \in {} |-> UNDEF]

\* array elements that are not objects: null, and a number
JSNull == [prim |-> "null"]
JSNumber == [prim |-> "number"]

\* !(!node || typeof node !== 'object')
IsObject(cell) == "prim" \notin DOMAIN cell

\* node.children && Array.isArray(node.children)
HasChildren(cell) == IsObject(cell) /\ "children" \in DOMAIN cell

\* a || b
Or(a, b) == IF Truthy(a) THEN a ELSE b

\* the least of a set of indices, 0 when there is none: the index of the
\* element Array.prototype.find returns, given the indices that pass its test
First(S) == IF S = {} THEN 0 ELSE CHOOSE i \in S : \A j \in S : i <= j

\* the element of a one-element set; The({F(x) : x \in {e}}) is F(e) with e
\* evaluated once, before the call
The(S) == CHOOSE x \in S : TRUE

----------------------------------------------------------------------------
(* Deep values: the structure reachable from an address, with every        *)
(* children array replaced by the deep values of its elements.  Deep       *)
(* equality of two trees is equality of their deep values.                 *)

RECURSIVE DeepNode(_, _), DeepNodes(_, _)

DeepNode(h, r) ==
  IF HasChildren(h[r])
  THEN [h[r] EXCEPT !.children = DeepNodes(h, h[r].children)]
  ELSE h[r]

DeepNodes(h, rs) == [i \in 1..Len(rs) |-> DeepNode(h, rs[i])]

\* lexicalField?.root?.children
HasTree(e, field) ==
  /\ field \in DOMAIN e
  /\ "root" \in DOMAIN e[field]
  /\ "children" \in DOMAIN e[field].root

RootChildren(e, field) == IF HasTree(e, field) THEN e[field].root.children ELSE <<>>

\* WithRootChildren without the spreads of lexicalField and lexicalField.root
WithRootChildren_NoSpread(e, field, nodes) ==
  Spread(e, [k \in {field} |-> [root |-> [children |-> nodes]]])

\* { ...entity, [field]: { ...lexicalField, root: { ...root, children: nodes } } }
WithRootChildren(e, field, nodes) ==
  Spread(e, [k \in {field} |->
    Spread(e[field], [root |-> Spread(e[field].root, [children |-> nodes])])])

\* the deep value of an entity: its tree's addresses replaced by deep values
DeepEntity(h, e, field) ==
  IF HasTree(e, field)
  THEN [e EXCEPT ![field] = [@ EXCEPT !.root =
          [@ EXCEPT !.children = DeepNodes(h, e[field].root.children)]]]
  ELSE e

----------------------------------------------------------------------------
(* extractReferences (admin/src/utils/reference-extractor).                *)

NoRefs == [threw |-> FALSE, media |-> <<>>, entries |-> <<>>]

\* VisitNode without the lookups of an existing reference
VisitNode_NoDedup(node, acc) ==
  IF Get(node, "type") = "strapi-image" /\ Truthy(Get(node, "documentId"))
  THEN [acc EXCEPT !.media = Append(@, [documentId |-> node.documentId])]
  ELSE IF Get(node, "type") = "strapi-entry" /\ Truthy(Get(node, "documentId"))
  THEN [acc EXCEPT !.entries = Append(@,
          [documentId |-> node.documentId,
           contentType |-> Get(node, "contentType")])]
  ELSE acc

\* VisitNode with unshift in place of push
VisitNode_Unshift(node, acc) ==
  IF Get(node, "type") = "strapi-image" /\ Truthy(Get(node, "documentId"))
  THEN IF \E i \in 1..Len(acc.media) : acc.media[i].documentId = node.documentId
       THEN acc
       ELSE [acc EXCEPT !.media = <<[documentId |-> node.documentId]>> \o @]
  ELSE IF Get(node, "type") = "strapi-entry" /\ Truthy(Get(node, "documentId"))
  THEN IF \E i \in 1..Len(acc.entries) :
            /\ acc.entries[i].documentId = node.documentId
            /\ acc.entries[i].contentType = Get(node, "contentType")
       THEN acc
       ELSE [acc EXCEPT !.entries =
               <<[documentId |-> node.documentId,
                  contentType |-> Get(node, "contentType")]>> \o @]
  ELSE acc

\* the body of the forEach callback up to the recursion into the children
VisitNode(node, acc) ==
  IF Get(node, "type") = "strapi-image" /\ Truthy(Get(node, "documentId"))
  THEN IF \E i \in 1..Len(acc.media) : acc.media[i].documentId = node.documentId
       THEN acc
       ELSE [acc EXCEPT !.media = Append(@, [documentId |-> node.documentId])]
  ELSE IF Get(node, "type") = "strapi-entry" /\ Truthy(Get(node, "documentId"))
  THEN IF \E i \in 1..Len(acc.entries) :
            /\ acc.entries[i].documentId = node.documentId
            /\ acc.entries[i].contentType = Get(node, "contentType")
       THEN acc
       ELSE [acc EXCEPT !.entries = Append(@,
               [documentId |-> node.documentId,
                contentType |-> Get(node, "contentType")])]
  ELSE acc

RECURSIVE traverseNodes(_, _, _)

\* nodes.forEach(...): reading node.type of a null element raises a
\* TypeError, which ends the walk; a number has no type and no children
traverseNodes(h, nodes, acc) ==
  IF nodes = <<>> \/ acc.threw THEN acc
  ELSE The({traverseNodes(h, Tail(nodes), seen) :
              seen \in {LET node == h[Head(nodes)]
                        IN IF node = JSNull THEN [acc EXCEPT !.threw = TRUE]
                           ELSE IF ~IsObject(node) THEN acc
                           ELSE The({IF HasChildren(node)
                                     THEN traverseNodes(h, node.children, own)
                                     ELSE own : own \in {VisitNode(node, acc)}})}})

\* extractReferences without the test of editorState?.root?.children
extractReferences_Unguarded(h, e, field) ==
  IF ~HasTree(e, field) THEN [NoRefs EXCEPT !.threw = TRUE]
  ELSE traverseNodes(h, e[field].root.children, NoRefs)

\* editorState is the lexical field of an entity (or no object at all)
extractReferences(h, e, field) ==
  IF ~HasTree(e, field) THEN NoRefs
  ELSE traverseNodes(h, e[field].root.children, NoRefs)

----------------------------------------------------------------------------
(* hasReferencesChanged.                                                   *)

\* hasReferencesChanged without the two comparisons of length
hasReferencesChanged_NoLength(old, new) ==
  \/ \E i \in 1..Len(new.media) :
       ~\E j \in 1..Len(old.media) : old.media[j].documentId = new.media[i].documentId
  \/ \E i \in 1..Len(new.entries) :
       ~\E j \in 1..Len(old.entries) :
          /\ old.entries[j].documentId = new.entries[i].documentId
          /\ old.entries[j].contentType = new.entries[i].contentType

hasReferencesChanged(old, new) ==
  \/ Len(old.media) # Len(new.media)
  \/ \E i \in 1..Len(new.media) :
       ~\E j \in 1..Len(old.media) : old.media[j].documentId = new.media[i].documentId
  \/ Len(old.entries) # Len(new.entries)
  \/ \E i \in 1..Len(new.entries) :
       ~\E j \in 1..Len(old.entries) :
          /\ old.entries[j].documentId = new.entries[i].documentId
          /\ old.entries[j].contentType = new.entries[i].contentType

----------------------------------------------------------------------------
(* The tree merger (server/src/utils/lexical-populate).  Every operator    *)
(* takes the heap and returns the heap after the call with its result.     *)

\* the candidate list without 'headline'
titleCandidates_NoHeadline == <<"title", "name", "label", "subject">>

titleCandidates == <<"title", "name", "label", "headline", "subject">>

\* findTitleField with typeof entry[candidate] === 'string' alone
findTitleField_AnyString(entry) ==
  LET i == First({c \in 1..Len(titleCandidates) :
                    IsString(Get(entry, titleCandidates[c]))})
  IN IF i = 0 THEN UNDEF ELSE titleCandidates[i]

\* the first candidate whose value is truthy and a string; UNDEF for null
findTitleField(entry) ==
  LET i == First({c \in 1..Len(titleCandidates) :
                    /\ Truthy(Get(entry, titleCandidates[c]))
                    /\ IsString(Get(entry, titleCandidates[c]))})
  IN IF i = 0 THEN UNDEF ELSE titleCandidates[i]

\* populatedMedia.formats?.thumbnail?.url
ThumbnailUrl(media) ==
  IF "formats" \in DOMAIN media /\ "thumbnail" \in DOMAIN media.formats
  THEN Get(media.formats.thumbnail, "url")
  ELSE UNDEF

\* an attribute whose value is an object or undefined, as a sequence of at
\* most one object
Optional(o, k) == IF k \in DOMAIN o THEN <<o[k]>> ELSE <<>>

\* PriorMetadata without the node's metadata
PriorMetadata_None(node) == EmptyObject

\* node.metadata || {}
PriorMetadata(node) == IF "metadata" \in DOMAIN node THEN node.metadata ELSE EmptyObject

Alloc(h, object) == [h |-> Append(h, object), r |-> Len(h) + 1]

\* populateImageNode spreading the node's metadata over the record's values
populateImageNode_PriorWins(h, r, ctx) ==
  LET node == h[r]
      i == IF Truthy(Get(node, "documentId"))
           THEN First({k \in 1..Len(ctx.populatedMedia) :
                         ctx.populatedMedia[k].documentId = node.documentId})
           ELSE 0
  IN IF i = 0 THEN [h |-> h, r |-> r]
     ELSE LET m == ctx.populatedMedia[i]
          IN Alloc(h, Spread(node,
               [src |-> Or(ThumbnailUrl(m), Or(Get(m, "url"), Get(node, "src"))),
                metadata |-> Spread(
                  [url |-> Get(m, "url"),
                   alternativeText |-> Get(m, "alternativeText"),
                   caption |-> Get(m, "caption"),
                   width |-> Get(m, "width"),
                   height |-> Get(m, "height"),
                   formats |-> Optional(m, "formats"),
                   mime |-> Get(m, "mime"),
                   size |-> Get(m, "size"),
                   updatedAt |-> Get(m, "updatedAt")],
                  PriorMetadata(node))]))

\* populateImageNode preferring the full url to the thumbnail
populateImageNode_UrlFirst(h, r, ctx) ==
  LET node == h[r]
      i == IF Truthy(Get(node, "documentId"))
           THEN First({k \in 1..Len(ctx.populatedMedia) :
                         ctx.populatedMedia[k].documentId = node.documentId})
           ELSE 0
  IN IF i = 0 THEN [h |-> h, r |-> r]
     ELSE LET m == ctx.populatedMedia[i]
          IN Alloc(h, Spread(node,
               [src |-> Or(Get(m, "url"), Or(ThumbnailUrl(m), Get(node, "src"))),
                metadata |-> Spread(PriorMetadata(node),
                  [url |-> Get(m, "url"),
                   alternativeText |-> Get(m, "alternativeText"),
                   caption |-> Get(m, "caption"),
                   width |-> Get(m, "width"),
                   height |-> Get(m, "height"),
                   formats |-> Optional(m, "formats"),
                   mime |-> Get(m, "mime"),
                   size |-> Get(m, "size"),
                   updatedAt |-> Get(m, "updatedAt")])]))

populateImageNode(h, r, ctx) ==
  LET node == h[r]
      i == IF Truthy(Get(node, "documentId"))
           THEN First({k \in 1..Len(ctx.populatedMedia) :
                         ctx.populatedMedia[k].documentId = node.documentId})
           ELSE 0
  IN IF i = 0 THEN [h |-> h, r |-> r]
     ELSE LET m == ctx.populatedMedia[i]
          IN Alloc(h, Spread(node,
               [src |-> Or(ThumbnailUrl(m), Or(Get(m, "url"), Get(node, "src"))),
                metadata |-> Spread(PriorMetadata(node),
                  [url |-> Get(m, "url"),
                   alternativeText |-> Get(m, "alternativeText"),
                   caption |-> Get(m, "caption"),
                   width |-> Get(m, "width"),
                   height |-> Get(m, "height"),
                   formats |-> Optional(m, "formats"),
                   mime |-> Get(m, "mime"),
                   size |-> Get(m, "size"),
                   updatedAt |-> Get(m, "updatedAt")])]))

\* populateEntryNode deriving status from the node's prior metadata
populateEntryNode_StaleStatus(h, r, ctx) ==
  LET node == h[r]
      i == IF Truthy(Get(node, "documentId")) /\ Truthy(Get(node, "contentType"))
           THEN First({k \in 1..Len(ctx.populatedEntries) :
                         ctx.populatedEntries[k].documentId = node.documentId})
           ELSE 0
  IN IF i = 0 THEN [h |-> h, r |-> r]
     ELSE LET e == ctx.populatedEntries[i]
              titleField == findTitleField(e)
              title == IF titleField # UNDEF THEN e[titleField] ELSE Get(node, "title")
          IN Alloc(h, Spread(node,
               [title |-> title,
                metadata |-> Spread(PriorMetadata(node),
                  [title |-> title,
                   publishedAt |-> Get(e, "publishedAt"),
                   updatedAt |-> Get(e, "updatedAt"),
                   locale |-> Get(e, "locale"),
                   status |-> IF Truthy(Get(PriorMetadata(node), "publishedAt"))
                              THEN "published" ELSE "draft"]),
                data |-> e]))

\* populateEntryNode returning, on a miss, the node without its title
populateEntryNode_MissDropsTitle(h, r, ctx) ==
  LET node == h[r]
      i == IF Truthy(Get(node, "documentId")) /\ Truthy(Get(node, "contentType"))
           THEN First({k \in 1..Len(ctx.populatedEntries) :
                         ctx.populatedEntries[k].documentId = node.documentId})
           ELSE 0
  IN IF i = 0 THEN Alloc(h, [k \in DOMAIN node \ {"title"} |-> node[k]])
     ELSE LET e == ctx.populatedEntries[i]
              titleField == findTitleField(e)
              title == IF titleField # UNDEF THEN e[titleField] ELSE Get(node, "title")
          IN Alloc(h, Spread(node,
               [title |-> title,
                metadata |-> Spread(PriorMetadata(node),
                  [title |-> title,
                   publishedAt |-> Get(e, "publishedAt"),
                   updatedAt |-> Get(e, "updatedAt"),
                   locale |-> Get(e, "locale"),
                   status |-> IF Truthy(Get(e, "publishedAt"))
                              THEN "published" ELSE "draft"]),
                data |-> e]))

populateEntryNode(h, r, ctx) ==
  LET node == h[r]
      i == IF Truthy(Get(node, "documentId")) /\ Truthy(Get(node, "contentType"))
           THEN First({k \in 1..Len(ctx.populatedEntries) :
                         ctx.populatedEntries[k].documentId = node.documentId})
           ELSE 0
  IN IF i = 0 THEN [h |-> h, r |-> r]
     ELSE LET e == ctx.populatedEntries[i]
              titleField == findTitleField(e)
              title == IF titleField # UNDEF THEN e[titleField] ELSE Get(node, "title")
          IN Alloc(h, Spread(node,
               [title |-> title,
                metadata |-> Spread(PriorMetadata(node),
                  [title |-> title,
                   publishedAt |-> Get(e, "publishedAt"),
                   updatedAt |-> Get(e, "updatedAt"),
                   locale |-> Get(e, "locale"),
                   status |-> IF Truthy(Get(e, "publishedAt"))
                              THEN "published" ELSE "draft"]),
                data |-> e]))

RECURSIVE populateNode(_, _, _), populateNodes(_, _, _)

\* populatedNode.children = <the populated children>: an assignment to the
\* object populatedNode refers to
AssignChildren(r, kids) ==
  [h |-> [kids.h EXCEPT ![r] = [@ EXCEPT !.children = kids.rs]], r |-> r]

\* the recursion into populatedNode.children, when it is an array
PopulateChildren(first, ctx) ==
  IF HasChildren(first.h[first.r])
  THEN The({AssignChildren(first.r, kids) :
              kids \in {populateNodes(first.h, first.h[first.r].children, ctx)}})
  ELSE first

\* the reference branches return either a fresh object or the node itself;
\* every other node is copied ({ ...node })
populateNode(h, r, ctx) ==
  IF ~IsObject(h[r]) THEN [h |-> h, r |-> r]
  ELSE The({PopulateChildren(first, ctx) :
              first \in {CASE Get(h[r], "type") = "strapi-image" -> populateImageNode(h, r, ctx)
                           [] Get(h[r], "type") = "strapi-entry" -> populateEntryNode(h, r, ctx)
                           [] OTHER -> Alloc(h, h[r])}})

\* PushAll pushing the populated node twice
PushAll_Twice(one, rest) == [h |-> rest.h, rs |-> <<one.r, one.r>> \o rest.rs]

\* PushAll with unshift in place of push
PushAll_Unshift(one, rest) == [h |-> rest.h, rs |-> rest.rs \o <<one.r>>]

\* populatedNodes.push(populatedNode) for the rest of the array
PushAll(one, rest) == [h |-> rest.h, rs |-> <<one.r>> \o rest.rs]

PopulateRest(one, nodes, ctx) ==
  The({PushAll(one, rest) : rest \in {populateNodes(one.h, nodes, ctx)}})

populateNodes(h, nodes, ctx) ==
  IF nodes = <<>> THEN [h |-> h, rs |-> <<>>]
  ELSE The({PopulateRest(one, Tail(nodes), ctx) :
              one \in {populateNode(h, Head(nodes), ctx)}})

\* returns the heap after the call and the returned entity.  Nothing in
\* populateNodes raises on the trees and records of this model, so the catch
\* branch (return entity) is not taken.
populateLexicalReferences(h, e, field, ctx) ==
  IF ~HasTree(e, field) THEN [h |-> h, e |-> e]
  ELSE The({[h |-> res.h, e |-> WithRootChildren(e, field, res.rs)] :
              res \in {populateNodes(h, e[field].root.children, ctx)}})

----------------------------------------------------------------------------
(* The inputs: trees, resolved records, entities.                          *)

\* the sequences over S of length at most n without a repeated element
NoRepeatSeqs(S, n) ==
  {s \in UNION {[1..k -> S] : k \in 0..n} :
     \A i, j \in 1..Len(s) : i # j => s[i] # s[j]}

RECURSIVE AncestorsOrSelf(_, _)

AncestorsOrSelf(parent, i) ==
  {i} \cup (IF parent[i] = 0 THEN {} ELSE AncestorsOrSelf(parent, parent[i]))

\* the parent vectors of the ordered forests of n elements numbered in
\* pre-order (0: an element of root.children)
Parents(n) ==
  {parent \in [1..n -> 0..n] :
     \A i \in 1..n :
       /\ parent[i] < i
       /\ i > 1 => parent[i] \in {0} \cup AncestorsOrSelf(parent, i - 1)}

RECURSIVE Ascending(_)

\* the elements of a set of numbers in increasing order
Ascending(S) ==
  IF S = {} THEN <<>>
  ELSE LET least == CHOOSE x \in S : \A y \in S : x <= y
       IN <<least>> \o Ascending(S \ {least})

ChildrenOf(parent, i) == Ascending({j \in DOMAIN parent : parent[j] = i})

\* the heap and root.children of the forest with the given cells and parents:
\* a paragraph always has a children array, another object has one when it
\* has children
Forest(cells, parent) ==
  [heap |-> [i \in DOMAIN cells |->
               IF ChildrenOf(parent, i) # <<>> \/ Get(cells[i], "type") = "paragraph"
               THEN Spread(cells[i], [children |-> ChildrenOf(parent, i)])
               ELSE cells[i]],
   roots |-> ChildrenOf(parent, 0)]

\* only objects have children
WellFormed(cells, parent) ==
  \A i \in DOMAIN cells : parent[i] # 0 => IsObject(cells[parent[i]])

\* every forest of at most n elements drawn from palette
Forests(n, palette) ==
  UNION {UNION {{Forest(cells, parent) :
                   cells \in {c \in [1..k -> palette] : WellFormed(c, parent)}} :
                parent \in Parents(k)} : k \in 0..n}

Paragraph == [type |-> "paragraph"]

ImageNode == [type |-> "strapi-image", documentId |-> "m1", src |-> "/old.png"]

OtherImageNode == [type |-> "strapi-image", documentId |-> "m2", src |-> "/other.png"]

EntryNode ==
  [type |-> "strapi-entry", documentId |-> "e1", contentType |-> "T2",
   title |-> "Old", metadata |-> [custom |-> "keep"]]

EntryNodeT1 == [type |-> "strapi-entry", documentId |-> "e1", contentType |-> "T1"]

\* a 'strapi-entry' node without contentType
EntryNodeNoType == [type |-> "strapi-entry", documentId |-> "e1"]

\* an object without type
Untyped == [text |-> "x"]

MergePalette == {Paragraph, ImageNode, EntryNode, JSNull}

ExtractPalette ==
  {Paragraph, ImageNode, OtherImageNode, EntryNode, EntryNodeT1, EntryNodeNoType,
   Untyped, JSNull, JSNumber}

\* records of plugin::upload.file
MediaThumb ==
  [documentId |-> "m1", url |-> "/new.png",
   formats |-> [thumbnail |-> [url |-> "/new-thumb.png"]],
   alternativeText |-> "alt", width |-> "640", mime |-> "image/png"]

MediaPlain == [documentId |-> "m1", url |-> "/plain.png"]

\* records of the content types T1 and T2.  "collection" is the content type
\* whose query returned the record; the code never reads it.
PostT1 ==
  [documentId |-> "e1", collection |-> "T1", title |-> "New",
   publishedAt |-> "2024-01-01", locale |-> "en"]

PostT2 == [documentId |-> "e1", collection |-> "T2", headline |-> "Hello"]

\* a record of a content type that has an attribute named contentType
PostTyped ==
  [documentId |-> "e1", collection |-> "T2", contentType |-> "T2",
   headline |-> "Typed"]

MediaLists == NoRepeatSeqs({MediaThumb, MediaPlain}, 2)

EntryLists == NoRepeatSeqs({PostT1, PostT2}, 2)

Field == "content"

EntityOf(roots) ==
  [documentId |-> "x1", slug |-> "post",
   content |-> [root |-> [type |-> "root", children |-> roots], version |-> "1"]]

\* an entity whose lexical field is not set
BareEntity == [documentId |-> "x1", slug |-> "post"]

\* entities whose lexical field has no root, and a root without children
EntityNoRoot == [documentId |-> "x1", slug |-> "post", content |-> [version |-> "1"]]

EntityNoChildren ==
  [documentId |-> "x1", slug |-> "post",
   content |-> [root |-> [type |-> "root"], version |-> "1"]]

\* an entity whose lexical field is {}
EntityEmptyField == [documentId |-> "x1", slug |-> "post", content |-> EmptyObject]

Treeless == {BareEntity, EntityNoRoot, EntityNoChildren, EntityEmptyField}

NoContext == [populatedMedia |-> <<>>, populatedEntries |-> <<>>]

NoEntity == [e |-> EmptyObject, deep |-> EmptyObject]

EmptyStore == [entities |-> <<>>, media |-> <<>>, entries |-> <<>>]

NoCollected == [threw |-> FALSE, media |-> <<>>, entries |-> <<>>]

\* no merge in progress, no editor plugin and no client
ExtraIdle ==
  /\ calls = <<>>
  /\ plugin = EmptyObject
  /\ delivered = EmptyObject
  /\ client = EmptyObject

\* no request to the controller
BulkIdle ==
  /\ store = EmptyStore
  /\ request = EmptyObject
  /\ fetched = <<>>
  /\ allRefs = NoCollected
  /\ groups = <<>>
  /\ results = <<>>
  /\ queries = <<>>
  /\ thrown = {}
  /\ response = EmptyObject

----------------------------------------------------------------------------
(* Merging: populateLexicalReferences applied to an entity, and again to   *)
(* its result.                                                             *)

InitMerge ==
  /\ \E k \in 0..MaxNodes :
       \E parent \in Parents(k), cells \in [1..k -> MergePalette] :
         /\ WellFormed(cells, parent)
         /\ heap = Forest(cells, parent).heap
         /\ \/ entity = EntityOf(Forest(cells, parent).roots)
            \/ k = 0 /\ entity \in Treeless
  /\ \E media \in MediaLists, entries \in EntryLists :
       context = [populatedMedia |-> media, populatedEntries |-> entries]
  /\ given = DeepEntity(heap, entity, Field)
  /\ populated = NoEntity
  /\ repopulated = NoEntity
  /\ refs = NoRefs
  /\ oldRefs = NoRefs
  /\ newRefs = NoRefs
  /\ changed = FALSE
  /\ pc = "populate"
  /\ BulkIdle
  /\ ExtraIdle

Populate ==
  /\ pc = "populate"
  /\ LET res == populateLexicalReferences(heap, entity, Field, context)
     IN /\ heap' = res.h
        /\ populated' = [e |-> res.e, deep |-> DeepEntity(res.h, res.e, Field)]
  /\ pc' = "populated"
  /\ UNCHANGED <<entity, context, given, repopulated, refs, oldRefs, newRefs,
                 changed, bulkVars, extraVars>>

Repopulate ==
  /\ pc = "populated"
  /\ LET res == populateLexicalReferences(heap, populated.e, Field, context)
     IN /\ heap' = res.h
        /\ repopulated' = [e |-> res.e, deep |-> DeepEntity(res.h, res.e, Field)]
  /\ pc' = "repopulated"
  /\ UNCHANGED <<entity, context, given, populated, refs, oldRefs, newRefs,
                 changed, bulkVars, extraVars>>

NextMerge == Populate \/ Repopulate

SpecMerge == InitMerge /\ [][NextMerge]_vars

----------------------------------------------------------------------------
(* Title selection: one entry node merged with one resolved record whose   *)
(* candidate fields take every combination of not set, empty string,       *)
(* number and non-empty string.                                            *)

CandidateValue(field, kind) ==
  CASE kind = "empty" -> ""
    [] kind = "number" -> JSNUM
    [] OTHER -> field

TitleRecords ==
  {[k \in {"documentId", "collection"} \cup
          {titleCandidates[i] : i \in {j \in 1..5 : kinds[j] # "unset"}} |->
       CASE k = "documentId" -> "e1"
         [] k = "collection" -> "T2"
         [] OTHER -> CandidateValue(k,
              kinds[CHOOSE i \in 1..5 : titleCandidates[i] = k])] :
     kinds \in [1..5 -> {"unset", "empty", "number", "string"}]}

InitTitle ==
  /\ \E node \in {EntryNode, EntryNodeT1} :
       heap = <<node>>
  /\ entity = EntityOf(<<1>>)
  /\ \E record \in TitleRecords :
       context = [populatedMedia |-> <<>>, populatedEntries |-> <<record>>]
  /\ given = DeepEntity(heap, entity, Field)
  /\ populated = NoEntity
  /\ repopulated = NoEntity
  /\ refs = NoRefs
  /\ oldRefs = NoRefs
  /\ newRefs = NoRefs
  /\ changed = FALSE
  /\ pc = "populate"
  /\ BulkIdle
  /\ ExtraIdle

SpecTitle == InitTitle /\ [][NextMerge]_vars

----------------------------------------------------------------------------
(* One reference node: a tree of one reference node, alone or above a      *)
(* paragraph, merged with resolved lists that hold a record for it, a      *)
(* record for another documentId, or nothing.                              *)

\* a record of plugin::upload.file for m1: formats is not set, has no
\* thumbnail, or has a thumbnail whose url is not set, empty or a string;
\* url is not set, empty or a string
MediaRecord(formats, url) ==
  Spread(
    Spread([documentId |-> "m1"],
      CASE url = "unset" -> EmptyObject
        [] url = "empty" -> [url |-> ""]
        [] OTHER -> [url |-> "/new.png"]),
    CASE formats = "unset" -> EmptyObject
      [] formats = "none" -> [formats |-> EmptyObject]
      [] formats = "nourl" -> [formats |-> [thumbnail |-> EmptyObject]]
      [] formats = "empty" -> [formats |-> [thumbnail |-> [url |-> ""]]]
      [] OTHER -> [formats |-> [thumbnail |-> [url |-> "/new-thumb.png"]]])

MediaRecords ==
  {MediaRecord(formats, url) :
     formats \in {"unset", "none", "nourl", "empty", "string"},
     url \in {"unset", "empty", "string"}}

MediaOther == [documentId |-> "m2", url |-> "/other-new.png"]

PostOther == [documentId |-> "e2", collection |-> "T1", title |-> "Other"]

\* a 'strapi-image' node without src, and one without documentId
ImageNodeNoSrc ==
  [type |-> "strapi-image", documentId |-> "m1", metadata |-> [custom |-> "keep"]]

ImageNodeNoId == [type |-> "strapi-image", src |-> "/old.png"]

\* a 'strapi-image' node that was populated before from an older record
ImageNodeStale ==
  [type |-> "strapi-image", documentId |-> "m1", src |-> "/stale-thumb.png",
   metadata |-> [custom |-> "keep", url |-> "/stale.png", caption |-> "stale",
                 formats |-> <<[thumbnail |-> [url |-> "/stale-thumb.png"]]>>]]

NodePalette ==
  {ImageNode, OtherImageNode, ImageNodeNoSrc, ImageNodeNoId, ImageNodeStale,
   EntryNode, EntryNodeT1, EntryNodeNoType}

NodeMediaLists ==
  {<<>>, <<MediaOther>>, <<MediaThumb>>} \cup {<<m>> : m \in MediaRecords}
    \cup {<<m, MediaPlain>> : m \in MediaRecords}

NodeEntryLists == {<<>>, <<PostT1>>, <<PostT2>>, <<PostOther>>}

InitNode ==
  /\ \E node \in NodePalette, parent \in {<<0>>, <<0, 1>>} :
       /\ heap = Forest([i \in DOMAIN parent |-> IF i = 1 THEN node ELSE Paragraph],
                        parent).heap
       /\ entity = EntityOf(<<1>>)
  /\ \E media \in NodeMediaLists, entries \in NodeEntryLists :
       context = [populatedMedia |-> media, populatedEntries |-> entries]
  /\ given = DeepEntity(heap, entity, Field)
  /\ populated = NoEntity
  /\ repopulated = NoEntity
  /\ refs = NoRefs
  /\ oldRefs = NoRefs
  /\ newRefs = NoRefs
  /\ changed = FALSE
  /\ pc = "populate"
  /\ BulkIdle
  /\ ExtraIdle

SpecNode == InitNode /\ [][NextMerge]_vars

----------------------------------------------------------------------------
(* Extraction: extractReferences applied to the lexical field of an        *)
(* entity.                                                                 *)

InitExtract ==
  /\ \E k \in 0..MaxNodes :
       \E parent \in Parents(k), cells \in [1..k -> ExtractPalette] :
         /\ WellFormed(cells, parent)
         /\ heap = Forest(cells, parent).heap
         /\ \/ entity = EntityOf(Forest(cells, parent).roots)
            \/ k = 0 /\ entity \in Treeless
  /\ context = NoContext
  /\ given = DeepEntity(heap, entity, Field)
  /\ populated = NoEntity
  /\ repopulated = NoEntity
  /\ refs = NoRefs
  /\ oldRefs = NoRefs
  /\ newRefs = NoRefs
  /\ changed = FALSE
  /\ pc = "extract"
  /\ BulkIdle
  /\ ExtraIdle

Extract ==
  /\ pc = "extract"
  /\ refs' = extractReferences(heap, entity, Field)
  /\ pc' = "extracted"
  /\ UNCHANGED <<heap, entity, context, given, populated, repopulated,
                 oldRefs, newRefs, changed, bulkVars, extraVars>>

NextExtract == Extract

SpecExtract == InitExtract /\ [][NextExtract]_vars

----------------------------------------------------------------------------
(* Change detection: hasReferencesChanged applied to two deduplicated      *)
(* reference sets.                                                         *)

MediaRefs == {[documentId |-> d] : d \in {"m1", "m2", "m3"}}

EntryRefs ==
  {[documentId |-> "e1", contentType |-> "T1"],
   [documentId |-> "e1", contentType |-> "T2"],
   [documentId |-> "e2", contentType |-> "T1"]}

ReferenceSets ==
  {[threw |-> FALSE, media |-> m, entries |-> e] :
     m \in NoRepeatSeqs(MediaRefs, MaxRefs), e \in NoRepeatSeqs(EntryRefs, MaxRefs)}

InitRefs ==
  /\ heap = <<>>
  /\ entity = BareEntity
  /\ context = NoContext
  /\ given = BareEntity
  /\ populated = NoEntity
  /\ repopulated = NoEntity
  /\ refs = NoRefs
  /\ oldRefs \in ReferenceSets
  /\ newRefs \in ReferenceSets
  /\ changed = FALSE
  /\ pc = "compare"
  /\ BulkIdle
  /\ ExtraIdle

Compare ==
  /\ pc = "compare"
  /\ changed' = hasReferencesChanged(oldRefs, newRefs)
  /\ pc' = "compared"
  /\ UNCHANGED <<heap, entity, context, given, populated, repopulated, refs,
                 oldRefs, newRefs, bulkVars, extraVars>>

NextRefs == Compare

SpecRefs == InitRefs /\ [][NextRefs]_vars

----------------------------------------------------------------------------
(* The backing store and the bulk controller (populateBulk).  The store    *)
(* holds documents as values; a query returns fresh objects.  Every query  *)
(* either returns or throws.  The controller advances from one await to    *)
(* the next.                                                               *)

RECURSIVE LoadNode(_, _), LoadNodes(_, _)

LoadParent(v, kids) == Alloc(kids.h, [v EXCEPT !.children = kids.rs])

\* the objects of a document's tree, created by the query that returns it
LoadNode(h, v) ==
  IF HasChildren(v)
  THEN The({LoadParent(v, kids) : kids \in {LoadNodes(h, v.children)}})
  ELSE Alloc(h, v)

Cons(one, rest) == [h |-> rest.h, rs |-> <<one.r>> \o rest.rs]

LoadRest(one, vs) == The({Cons(one, rest) : rest \in {LoadNodes(one.h, vs)}})

LoadNodes(h, vs) ==
  IF vs = <<>> THEN [h |-> h, rs |-> <<>>]
  ELSE The({LoadRest(one, Tail(vs)) : one \in {LoadNode(h, Head(vs))}})

LoadTree(v, nodes) == [h |-> nodes.h, e |-> WithRootChildren(v, Field, nodes.rs)]

LoadEntity(h, v) ==
  IF HasTree(v, Field)
  THEN The({LoadTree(v, nodes) : nodes \in {LoadNodes(h, v[Field].root.children)}})
  ELSE [h |-> h, e |-> v]

RECURSIVE LoadEntities(_, _)

LoadMore(one, rest) == [h |-> rest.h, es |-> <<one.e>> \o rest.es]

LoadAfter(one, vs) == The({LoadMore(one, rest) : rest \in {LoadEntities(one.h, vs)}})

LoadEntities(h, vs) ==
  IF vs = <<>> THEN [h |-> h, es |-> <<>>]
  ELSE The({LoadAfter(one, Tail(vs)) : one \in {LoadEntity(h, Head(vs))}})

InIds(id, ids) == \E i \in 1..Len(ids) : ids[i] = id

\* findMany({filters: {documentId: {$in: ids}}}) on a collection
FindMany(documents, ids) ==
  LET hit(d) == InIds(d.documentId, ids) IN SelectSeq(documents, hit)

\* the documents of one content type
Collection(uid) ==
  LET in(d) == d.collection = uid IN SelectSeq(store.entries, in)

\* populateMediaReferences querying for an empty identifier list as well
MediaQueries_Always(documentIds) ==
  <<[op |-> "findMany", uid |-> "plugin::upload.file", ids |-> documentIds]>>

\* populateMediaReferences: the findMany calls it makes, none when
\* documentIds.length === 0
MediaQueries(documentIds) ==
  IF Len(documentIds) = 0 THEN <<>>
  ELSE <<[op |-> "findMany", uid |-> "plugin::upload.file", ids |-> documentIds]>>

\* AddReferences with an array in place of the Set of media documentIds
AddReferences_NoSet(acc, r) ==
  IF r.threw THEN [acc EXCEPT !.threw = TRUE]
  ELSE [threw |-> FALSE,
        media |-> acc.media \o [i \in 1..Len(r.media) |-> r.media[i].documentId],
        entries |-> acc.entries \o r.entries]

\* references.media.forEach(ref => allMediaRefs.add(ref.documentId));
\* allEntryRefs.push(...references.entries)
AddReferences(acc, r) ==
  IF r.threw THEN [acc EXCEPT !.threw = TRUE]
  ELSE LET new(m) == ~InIds(m.documentId, acc.media)
           id(m) == m.documentId
           fresh == SelectSeq(r.media, new)
       IN [threw |-> FALSE,
           media |-> acc.media \o [i \in 1..Len(fresh) |-> fresh[i].documentId],
           entries |-> acc.entries \o r.entries]

RECURSIVE CollectReferences(_, _, _)

\* entities.forEach(entity => ...): an exception of extractReferences ends
\* the loop
CollectReferences(h, es, acc) ==
  IF es = <<>> \/ acc.threw THEN acc
  ELSE The({CollectReferences(h, Tail(es), more) :
              more \in {AddReferences(acc, extractReferences(h, Head(es), Field))}})

RECURSIVE GroupByContentType(_, _)

\* AddToGroup opening a group for every reference
AddToGroup_NoGrouping(acc, ref) ==
  Append(acc, [contentType |-> ref.contentType, documentIds |-> <<ref.documentId>>])

\* the callback of entryRefs.reduce
AddToGroup(acc, ref) ==
  IF \E i \in 1..Len(acc) : acc[i].contentType = ref.contentType
  THEN [i \in 1..Len(acc) |->
          IF acc[i].contentType = ref.contentType
          THEN [acc[i] EXCEPT !.documentIds = Append(@, ref.documentId)]
          ELSE acc[i]]
  ELSE Append(acc, [contentType |-> ref.contentType, documentIds |-> <<ref.documentId>>])

\* entryRefs.reduce(...): the groups in the order of Object.entries
GroupByContentType(entryRefs, acc) ==
  IF entryRefs = <<>> THEN acc
  ELSE The({GroupByContentType(Tail(entryRefs), more) :
              more \in {AddToGroup(acc, Head(entryRefs))}})

RECURSIVE PopulateAll(_, _, _)

PopulatedMore(one, rest) == [h |-> rest.h, es |-> <<one.e>> \o rest.es]

PopulateAfter(one, es, ctx) ==
  The({PopulatedMore(one, rest) : rest \in {PopulateAll(one.h, es, ctx)}})

\* Promise.all(entities.map(entity => populateLexicalReferences(...))): the
\* entities share no node, so the calls are made one after the other
PopulateAll(h, es, ctx) ==
  IF es = <<>> THEN [h |-> h, es |-> <<>>]
  ELSE The({PopulateAfter(one, Tail(es), ctx) :
              one \in {populateLexicalReferences(h, Head(es), Field, ctx)}})

DeepEntities(h, es) == [i \in 1..Len(es) |-> DeepEntity(h, es[i], Field)]

BulkPalette == {Paragraph, ImageNode, EntryNodeT1, EntryNode, JSNull}

StoredEntity(id, f) ==
  [DeepEntity(f.heap, EntityOf(f.roots), Field) EXCEPT !.documentId = id]

InitBulk ==
  /\ \E f1, f2 \in Forests(MaxBulkNodes, BulkPalette),
        media \in {<<>>, <<MediaThumb>>},
        entries \in {<<>>, <<PostT1>>, <<PostT1, PostT2>>} :
       /\ Len(f1.heap) + Len(f2.heap) <= MaxBulkNodes
       /\ store = [entities |-> <<StoredEntity("x1", f1), StoredEntity("x2", f2)>>,
                   media |-> media, entries |-> entries]
  /\ \E ids \in {<<>>, <<"x1">>, <<"x1", "x2">>, <<"x3">>}, populate \in BOOLEAN :
       request = [documentIds |-> ids, lexicalField |-> Field, populate |-> populate]
  /\ heap = <<>>
  /\ entity = BareEntity
  /\ context = NoContext
  /\ given = BareEntity
  /\ populated = NoEntity
  /\ repopulated = NoEntity
  /\ refs = NoRefs
  /\ oldRefs = NoRefs
  /\ newRefs = NoRefs
  /\ changed = FALSE
  /\ fetched = <<>>
  /\ allRefs = NoCollected
  /\ groups = <<>>
  /\ results = <<>>
  /\ queries = <<>>
  /\ thrown = {}
  /\ response = EmptyObject
  /\ ExtraIdle
  /\ pc = "bulk"

idleVars ==
  <<entity, given, populated, repopulated, refs, oldRefs, newRefs, changed, extraVars>>

\* Send without the response
Send_Nothing(r) == response' = response /\ pc' = "done"

\* ctx.send, ctx.badRequest, ctx.notFound, ctx.internalServerError, each
\* followed by the return of the handler
Send(r) == response' = r /\ pc' = "done"

\* a handler step that writes to the store
StoreUntouched_Cleared == store' = EmptyStore

\* the handlers call findOne and findMany only
StoreUntouched == store' = store

\* ctx.badRequest for an empty documentIds, else the query for the entities
BulkRequest ==
  /\ pc = "bulk"
  /\ IF Len(request.documentIds) = 0
     THEN Send([status |-> 400]) /\ UNCHANGED queries
     ELSE /\ pc' = "bulk:fetch"
          /\ queries' = Append(queries, [op |-> "findMany", uid |-> "T0",
                                         ids |-> request.documentIds])
          /\ UNCHANGED response
  /\ StoreUntouched
  /\ UNCHANGED <<heap, context, request, fetched, allRefs, groups, results,
                 thrown, idleVars>>

\* the query for the entities throws
BulkFetchFails ==
  /\ pc = "bulk:fetch"
  /\ Send([status |-> 500])
  /\ thrown' = thrown \cup {Len(queries)}
  /\ StoreUntouched
  /\ UNCHANGED <<heap, context, request, fetched, allRefs, groups, results,
                 queries, idleVars>>

\* the query for the entities returns: the references of all entities are
\* collected and populateMediaReferences is called
BulkFetched ==
  /\ pc = "bulk:fetch"
  /\ \E loaded \in {LoadEntities(heap, FindMany(store.entities, request.documentIds))} :
      \E collected \in {CollectReferences(loaded.h, loaded.es, NoCollected)} :
        /\ heap' = loaded.h
        /\ fetched' = loaded.es
        /\ IF loaded.es = <<>>
           THEN Send([status |-> 200, data |-> <<>>]) /\ UNCHANGED <<allRefs, queries>>
           ELSE IF ~request.populate
           THEN /\ Send([status |-> 200, data |-> DeepEntities(loaded.h, loaded.es)])
                /\ UNCHANGED <<allRefs, queries>>
           ELSE IF collected.threw
           THEN Send([status |-> 500]) /\ UNCHANGED <<allRefs, queries>>
           ELSE /\ allRefs' = collected
                /\ pc' = "bulk:media"
                /\ queries' = queries \o MediaQueries(collected.media)
                /\ UNCHANGED response
  /\ StoreUntouched
  /\ UNCHANGED <<context, request, groups, results, thrown, idleVars>>

\* populateMediaReferences returns (its query returned, threw, or was not
\* made) and populateEntryReferences groups the entry references
MediaResolved(at, to) ==
  /\ pc = at
  /\ \E threw \in {FALSE} \cup (IF allRefs.media = <<>> THEN {} ELSE {TRUE}) :
       /\ context' = [context EXCEPT !.populatedMedia =
                        IF threw THEN <<>> ELSE FindMany(store.media, allRefs.media)]
       /\ thrown' = IF threw THEN thrown \cup {Len(queries)} ELSE thrown
  /\ groups' = GroupByContentType(allRefs.entries, <<>>)
  /\ results' = <<>>
  /\ pc' = to
  /\ StoreUntouched
  /\ UNCHANGED <<heap, request, fetched, allRefs, queries, response, idleVars>>

\* the query of the next content type returns or throws
EntryGroupResolved(at) ==
  /\ pc = at
  /\ groups # <<>>
  /\ queries' = Append(queries, [op |-> "findMany", uid |-> Head(groups).contentType,
                                 ids |-> Head(groups).documentIds])
  /\ \E threw \in BOOLEAN :
       /\ results' = IF threw THEN results
                     ELSE results \o FindMany(Collection(Head(groups).contentType),
                                              Head(groups).documentIds)
       /\ thrown' = IF threw THEN thrown \cup {Len(queries')} ELSE thrown
  /\ groups' = Tail(groups)
  /\ StoreUntouched
  /\ UNCHANGED <<heap, context, request, fetched, allRefs, response, pc, idleVars>>

BulkMediaResolved == MediaResolved("bulk:media", "bulk:entries")

BulkEntryGroup == EntryGroupResolved("bulk:entries")

\* populateEntryReferences returns; every entity is populated and the
\* response is sent
BulkMerge ==
  /\ pc = "bulk:entries"
  /\ groups = <<>>
  /\ context' = [context EXCEPT !.populatedEntries = results]
  /\ \E done \in {PopulateAll(heap, fetched, context')} :
        /\ heap' = done.h
        /\ Send([status |-> 200,
                 data |-> DeepEntities(done.h, done.es),
                 meta |-> [total |-> Len(done.es),
                           media |-> Len(allRefs.media),
                           entries |-> Len(allRefs.entries)]])
  /\ StoreUntouched
  /\ UNCHANGED <<request, fetched, allRefs, groups, results, queries, thrown,
                 idleVars>>

NextBulk ==
  \/ BulkRequest
  \/ BulkFetchFails
  \/ BulkFetched
  \/ BulkMediaResolved
  \/ BulkEntryGroup
  \/ BulkMerge

SpecBulk == InitBulk /\ [][NextBulk]_vars

----------------------------------------------------------------------------
(* The controller with its four endpoints: populateEntity, populateBulk,   *)
(* getReferences and validateReferences.  A request is accepted when no    *)
(* other is being handled; its handler advances from one await to the      *)
(* next until it has sent its response.                                    *)

\* x1 is stored, x3 is not
EntityIds == {"x1", "x3"}

\* the media and the entries of the bodies of the validate-references
\* requests, body k holding ValidateMedia[k] and ValidateEntries[k]
ValidateMedia == <<<<>>, <<"m1">>, <<"m1", "m9">>, <<>>, <<"m1", "m9">>>>

ValidateEntries ==
  <<<<>>,
    <<[documentId |-> "e1", contentType |-> "T1"]>>,
    <<[documentId |-> "e1", contentType |-> "T2"],
      [documentId |-> "e9", contentType |-> "T1"]>>,
    <<[documentId |-> "e1", contentType |-> "T2"],
      [documentId |-> "e9", contentType |-> "T1"]>>,
    <<>>>>

Requests ==
  {[endpoint |-> "populate-bulk", documentIds |-> ids, lexicalField |-> Field,
    populate |-> TRUE] : ids \in {<<>>, <<"x1", "x2">>, <<"x3">>}}
  \cup
  {[endpoint |-> "populate-bulk", documentIds |-> <<"x1", "x2">>,
    lexicalField |-> Field, populate |-> FALSE]}
  \cup
  {[endpoint |-> "populate", documentId |-> id, lexicalField |-> Field,
    populate |-> TRUE] : id \in EntityIds}
  \cup
  {[endpoint |-> "populate", documentId |-> "x1", lexicalField |-> Field,
    populate |-> FALSE]}
  \cup
  {[endpoint |-> "references", documentId |-> id, lexicalField |-> Field] :
     id \in EntityIds}
  \cup
  {[endpoint |-> "validate-references", media |-> ValidateMedia[k],
    entries |-> ValidateEntries[k]] : k \in DOMAIN ValidateMedia}

\* the position at which the handler of an endpoint starts
Handler(endpoint) ==
  CASE endpoint = "populate-bulk" -> "bulk"
    [] endpoint = "populate" -> "entity"
    [] endpoint = "references" -> "references"
    [] OTHER -> "validate"

MaxLiveNodes == 1

\* the server with no request yet, over the stores whose entities x1 and x2
\* have at most n nodes together
ServerStart(n) ==
  /\ \E f1, f2 \in Forests(n, BulkPalette),
        media \in {<<>>, <<MediaThumb>>},
        entries \in {<<>>, <<PostT1>>, <<PostT1, PostT2>>, <<PostTyped>>} :
       /\ Len(f1.heap) + Len(f2.heap) <= n
       /\ store = [entities |-> <<StoredEntity("x1", f1), StoredEntity("x2", f2)>>,
                   media |-> media, entries |-> entries]
  /\ request = EmptyObject
  /\ heap = <<>>
  /\ entity = BareEntity
  /\ context = NoContext
  /\ given = BareEntity
  /\ populated = NoEntity
  /\ repopulated = NoEntity
  /\ refs = NoRefs
  /\ oldRefs = NoRefs
  /\ newRefs = NoRefs
  /\ changed = FALSE
  /\ fetched = <<>>
  /\ allRefs = NoCollected
  /\ groups = <<>>
  /\ results = <<>>
  /\ queries = <<>>
  /\ thrown = {}
  /\ response = EmptyObject
  /\ ExtraIdle
  /\ pc = "idle"

InitServer == ServerStart(MaxBulkNodes)

InitLive == ServerStart(MaxLiveNodes)

\* a request arrives: a fresh ctx and fresh locals of its handler
Accept ==
  /\ pc \in {"idle", "done"}
  /\ \E r \in Requests : request' = r /\ pc' = Handler(r.endpoint)
  /\ heap' = <<>>
  /\ context' = NoContext
  /\ fetched' = <<>>
  /\ allRefs' = NoCollected
  /\ groups' = <<>>
  /\ results' = <<>>
  /\ queries' = <<>>
  /\ thrown' = {}
  /\ response' = EmptyObject
  /\ StoreUntouched
  /\ UNCHANGED idleVars

\* populateEntity and getReferences: the findOne call for the entity
FindOneRequest(at, to) ==
  /\ pc = at
  /\ queries' = Append(queries, [op |-> "findOne", uid |-> "T0",
                                 ids |-> <<request.documentId>>])
  /\ pc' = to
  /\ StoreUntouched
  /\ UNCHANGED <<heap, context, request, fetched, allRefs, groups, results, thrown,
                 response, idleVars>>

\* findOne throws: the catch of the handler
FindOneFails(at) ==
  /\ pc = at
  /\ Send([status |-> 500])
  /\ thrown' = thrown \cup {Len(queries)}
  /\ StoreUntouched
  /\ UNCHANGED <<heap, context, request, fetched, allRefs, groups, results, queries,
                 idleVars>>

EntityRequest == FindOneRequest("entity", "entity:fetch")

EntityFetchFails == FindOneFails("entity:fetch")

\* references.media.map(ref => ref.documentId) and references.entries
ReferencesOf(r) ==
  [threw |-> FALSE,
   media |-> [i \in 1..Len(r.media) |-> r.media[i].documentId],
   entries |-> r.entries]

\* populateEntity: findOne returns; notFound, the entity as it is, or the
\* extraction of its references and the call of populateMediaReferences
EntityFetched ==
  /\ pc = "entity:fetch"
  /\ \E loaded \in {LoadEntities(heap, FindMany(store.entities, <<request.documentId>>))} :
      \E references \in {IF loaded.es = <<>> THEN NoRefs
                          ELSE extractReferences(loaded.h, loaded.es[1], Field)} :
        /\ heap' = loaded.h
        /\ fetched' = loaded.es
        /\ IF loaded.es = <<>>
           THEN Send([status |-> 404]) /\ UNCHANGED <<allRefs, queries>>
           ELSE IF ~request.populate \/ ~HasTree(loaded.es[1], Field)
           THEN /\ Send([status |-> 200, data |-> DeepEntity(loaded.h, loaded.es[1], Field)])
                /\ UNCHANGED <<allRefs, queries>>
           ELSE IF references.threw
           THEN Send([status |-> 500]) /\ UNCHANGED <<allRefs, queries>>
           ELSE /\ allRefs' = ReferencesOf(references)
                /\ pc' = "entity:media"
                /\ queries' = queries \o MediaQueries(ReferencesOf(references).media)
                /\ UNCHANGED response
  /\ StoreUntouched
  /\ UNCHANGED <<context, request, groups, results, thrown, idleVars>>

EntityMediaResolved == MediaResolved("entity:media", "entity:entries")

EntityEntryGroup == EntryGroupResolved("entity:entries")

\* populateEntity: populateEntryReferences returns; the entity is populated
\* and the response is sent
EntityMerge ==
  /\ pc = "entity:entries"
  /\ groups = <<>>
  /\ context' = [context EXCEPT !.populatedEntries = results]
  /\ \E done \in {populateLexicalReferences(heap, fetched[1], Field, context')} :
        /\ heap' = done.h
        /\ Send([status |-> 200,
                 data |-> DeepEntity(done.h, done.e, Field),
                 meta |-> [media |-> Len(allRefs.media),
                           entries |-> Len(allRefs.entries)]])
  /\ StoreUntouched
  /\ UNCHANGED <<request, fetched, allRefs, groups, results, queries, thrown,
                 idleVars>>

ReferencesRequest == FindOneRequest("references", "references:fetch")

ReferencesFetchFails == FindOneFails("references:fetch")

\* getReferences: findOne returns; notFound, or the extracted references
ReferencesFetched ==
  /\ pc = "references:fetch"
  /\ \E loaded \in {LoadEntities(heap, FindMany(store.entities, <<request.documentId>>))} :
      \E references \in {IF loaded.es = <<>> THEN NoRefs
                          ELSE extractReferences(loaded.h, loaded.es[1], Field)} :
        /\ heap' = loaded.h
        /\ fetched' = loaded.es
        /\ IF loaded.es = <<>> THEN Send([status |-> 404])
           ELSE IF ~HasTree(loaded.es[1], Field)
           THEN Send([status |-> 200, data |-> [media |-> <<>>, entries |-> <<>>]])
           ELSE IF references.threw THEN Send([status |-> 500])
           ELSE Send([status |-> 200,
                      data |-> [media |-> references.media, entries |-> references.entries],
                      meta |-> [total |-> Len(references.media) + Len(references.entries)]])
  /\ StoreUntouched
  /\ UNCHANGED <<context, request, allRefs, groups, results, queries, thrown, idleVars>>

\* validateReferences: populateMediaReferences is called with media
ValidateRequest ==
  /\ pc = "validate"
  /\ allRefs' = [threw |-> FALSE, media |-> request.media, entries |-> request.entries]
  /\ queries' = queries \o MediaQueries(request.media)
  /\ pc' = "validate:media"
  /\ StoreUntouched
  /\ UNCHANGED <<heap, context, request, fetched, groups, results, thrown, response,
                 idleVars>>

ValidateMediaResolved == MediaResolved("validate:media", "validate:entries")

ValidateEntryGroup == EntryGroupResolved("validate:entries")

\* `${v}`
Str(v) == IF v = UNDEF THEN "undefined" ELSE v

\* `${documentId}:${contentType}`
EntryKey(documentId, contentType) == Str(documentId) \o ":" \o Str(contentType)

\* new Set(foundEntries.map(e => `${e.documentId}:${e.contentType || 'unknown'}`))
FoundEntryKeys(foundEntries) ==
  {EntryKey(foundEntries[i].documentId, Or(Get(foundEntries[i], "contentType"), "unknown")) :
     i \in 1..Len(foundEntries)}

\* the results object of validateReferences
Classify(media, foundMedia, entries, foundEntries) ==
  LET validMedia(id) == \E i \in 1..Len(foundMedia) : foundMedia[i].documentId = id
      invalidMedia(id) == ~validMedia(id)
      validEntry(e) == EntryKey(e.documentId, e.contentType) \in FoundEntryKeys(foundEntries)
      invalidEntry(e) == ~validEntry(e)
  IN [media |-> [valid |-> SelectSeq(media, validMedia),
                 invalid |-> SelectSeq(media, invalidMedia)],
      entries |-> [valid |-> SelectSeq(entries, validEntry),
                   invalid |-> SelectSeq(entries, invalidEntry)]]

Validated(data) ==
  [status |-> 200, data |-> data,
   meta |-> [totalValid |-> Len(data.media.valid) + Len(data.entries.valid),
             totalInvalid |-> Len(data.media.invalid) + Len(data.entries.invalid)]]

\* validateReferences: populateEntryReferences returns; the inputs are
\* classified and the response is sent
ValidateSend ==
  /\ pc = "validate:entries"
  /\ groups = <<>>
  /\ Send(Validated(Classify(request.media, context.populatedMedia,
                             request.entries, results)))
  /\ StoreUntouched
  /\ UNCHANGED <<heap, context, request, fetched, allRefs, groups, results, queries,
                 thrown, idleVars>>

\* the steps of the handlers
Handle ==
  \/ BulkRequest
  \/ BulkFetchFails
  \/ BulkFetched
  \/ BulkMediaResolved
  \/ BulkEntryGroup
  \/ BulkMerge
  \/ EntityRequest
  \/ EntityFetchFails
  \/ EntityFetched
  \/ EntityMediaResolved
  \/ EntityEntryGroup
  \/ EntityMerge
  \/ ReferencesRequest
  \/ ReferencesFetchFails
  \/ ReferencesFetched
  \/ ValidateRequest
  \/ ValidateMediaResolved
  \/ ValidateEntryGroup
  \/ ValidateSend

NextServer == Accept \/ Handle

SpecServer == InitServer /\ [][NextServer]_vars

\* every query returns or throws, and the event loop runs the handler on
LiveServer == InitLive /\ [][NextServer]_vars /\ WF_vars(Handle)

----------------------------------------------------------------------------
(* Two calls of populateLexicalReferences in flight at once, as started by *)
(* Promise.all in populateBulk or by two populate requests.  A call runs   *)
(* from one await to the next in one step; the steps of the two calls      *)
(* interleave in any order.  A call keeps the activations of populateNodes *)
(* it is in on its stack: the nodes still to visit, the populatedNodes     *)
(* array, the populatedNode being visited (current) and the populatedNode  *)
(* whose children the activation populates (owner, 0 for root.children).   *)

MaxCallNodes == 3

CallPalette == {Paragraph, ImageNode, EntryNodeT1, JSNull}

CallIds == {1, 2}

Activation(nodes, owner) ==
  [nodes |-> nodes, populatedNodes |-> <<>>, current |-> 0, owner |-> owner]

\* populateLexicalReferences up to its call of populateNodes
StartCall(h, e) ==
  [entity |-> e,
   given |-> DeepEntity(h, e, Field),
   stack |-> <<Activation(e[Field].root.children, 0)>>,
   returned |-> FALSE,
   result |-> EmptyObject]

InitCalls ==
  /\ \E k \in 0..MaxCallNodes :
       \E parent \in Parents(k), cells \in [1..k -> CallPalette] :
         /\ WellFormed(cells, parent)
         /\ heap = Forest(cells, parent).heap
         /\ \E j \in 0..Len(Forest(cells, parent).roots) :
              calls = <<StartCall(heap, EntityOf(SubSeq(Forest(cells, parent).roots, 1, j))),
                        StartCall(heap, [EntityOf(SubSeq(Forest(cells, parent).roots, j + 1,
                                                        Len(Forest(cells, parent).roots)))
                                           EXCEPT !.documentId = "x2"])>>
  /\ \E media \in {<<>>, <<MediaThumb>>}, entries \in {<<>>, <<PostT1>>} :
       context = [populatedMedia |-> media, populatedEntries |-> entries]
  /\ entity = BareEntity
  /\ given = BareEntity
  /\ populated = NoEntity
  /\ repopulated = NoEntity
  /\ refs = NoRefs
  /\ oldRefs = NoRefs
  /\ newRefs = NoRefs
  /\ changed = FALSE
  /\ pc = "calls"
  /\ BulkIdle
  /\ plugin = EmptyObject
  /\ delivered = EmptyObject
  /\ client = EmptyObject

\* the activation of populateNodes a call is in
Top(c) == calls[c].stack[Len(calls[c].stack)]

WithTop(c, top) ==
  [calls EXCEPT ![c].stack = [@ EXCEPT ![Len(calls[c].stack)] = top]]

\* populatedNodes.push(populatedNode) and the next iteration of the loop
Pushed(top, r) ==
  [top EXCEPT !.populatedNodes = Append(@, r), !.current = 0]

\* a call that empties the context it was given
ContextRead_Consumed == context' = NoContext

\* the context is read, never written
ContextRead == context' = context

callVars ==
  <<entity, given, populated, repopulated, refs, oldRefs, newRefs, changed, pc,
    bulkVars, plugin, delivered, client>>

\* populateNode for the next node of the array, up to the test of
\* populatedNode.children
VisitNext(c) ==
  /\ calls[c].stack # <<>>
  /\ Top(c).current = 0
  /\ Top(c).nodes # <<>>
  /\ \E r \in {Head(Top(c).nodes)} :
       IF ~IsObject(heap[r])
       THEN /\ calls' = WithTop(c, Pushed([Top(c) EXCEPT !.nodes = Tail(@)], r))
            /\ UNCHANGED heap
       ELSE \E first \in {CASE Get(heap[r], "type") = "strapi-image" ->
                                 populateImageNode(heap, r, context)
                            [] Get(heap[r], "type") = "strapi-entry" ->
                                 populateEntryNode(heap, r, context)
                            [] OTHER -> Alloc(heap, heap[r])} :
              /\ heap' = first.h
              /\ calls' = WithTop(c, [Top(c) EXCEPT !.nodes = Tail(@),
                                                    !.current = first.r])
  /\ ContextRead
  /\ UNCHANGED callVars

\* populateNode after the switch: populateNodes is called for
\* populatedNode.children, or populatedNode is returned and pushed
Descend(c) ==
  /\ calls[c].stack # <<>>
  /\ Top(c).current # 0
  /\ IF HasChildren(heap[Top(c).current])
     THEN calls' = [calls EXCEPT ![c].stack =
                      Append(@, Activation(heap[Top(c).current].children, Top(c).current))]
     ELSE calls' = WithTop(c, Pushed(Top(c), Top(c).current))
  /\ ContextRead
  /\ UNCHANGED <<heap, callVars>>

\* populateNodes returns to populateNode: populatedNode.children is
\* assigned, populatedNode is returned and pushed
Return(c) ==
  /\ Len(calls[c].stack) > 1
  /\ Top(c).current = 0
  /\ Top(c).nodes = <<>>
  /\ heap' = [heap EXCEPT ![Top(c).owner].children = Top(c).populatedNodes]
  /\ calls' = [calls EXCEPT ![c].stack =
                 [i \in 1..Len(@) - 1 |->
                    IF i = Len(@) - 1 THEN Pushed(@[i], Top(c).owner) ELSE @[i]]]
  /\ ContextRead
  /\ UNCHANGED callVars

\* populateNodes returns to populateLexicalReferences, which returns the
\* populated entity
Finish(c) ==
  /\ Len(calls[c].stack) = 1
  /\ Top(c).current = 0
  /\ Top(c).nodes = <<>>
  /\ calls' = [calls EXCEPT
                 ![c].stack = <<>>,
                 ![c].returned = TRUE,
                 ![c].result = WithRootChildren(calls[c].entity, Field,
                                                Top(c).populatedNodes)]
  /\ ContextRead
  /\ UNCHANGED <<heap, callVars>>

NextCalls ==
  \E c \in CallIds :
    \/ VisitNext(c)
    \/ Descend(c)
    \/ Return(c)
    \/ Finish(c)

SpecCalls == InitCalls /\ [][NextCalls]_vars

----------------------------------------------------------------------------
(* StrapiOnChangePlugin: the update listener of the editor.  The plugin    *)
(* holds lastReferencesRef; an update of the editor runs the listener,     *)
(* which calls onChange.  A render with another value of enableReferences  *)
(* registers the listener anew and keeps the ref.                          *)

MaxEditorNodes == 2

EditorPalette == {Paragraph, ImageNode, OtherImageNode, EntryNodeT1}

\* editorState.toJSON(): the serialized states of the editor, each under
\* the key the extractor of this model reads it from
EditorStates ==
  {DeepEntity(f.heap, EntityOf(f.roots), Field) :
     f \in Forests(MaxEditorNodes, EditorPalette)}

\* extractReferences(serialized) without the threw flag of the model
Extracted(serialized) ==
  The({The({[media |-> r.media, entries |-> r.entries] :
              r \in {extractReferences(loaded.h, loaded.e, Field)}}) :
         loaded \in {LoadEntity(<<>>, serialized)}})

\* a listener that never assigns lastReferencesRef.current
LastReferences_Never(last, references) == last

\* lastReferencesRef.current after the if of the listener; references is
\* the same object in both branches
LastReferences(last, references) ==
  IF hasReferencesChanged(last, references) THEN references ELSE last

InitEditor ==
  /\ \E enableReferences \in BOOLEAN, state \in EditorStates :
       plugin = [enableReferences |-> enableReferences,
                 lastReferences |-> [media |-> <<>>, entries |-> <<>>],
                 editorState |-> state]
  /\ delivered = EmptyObject
  /\ calls = <<>>
  /\ client = EmptyObject
  /\ heap = <<>>
  /\ entity = BareEntity
  /\ context = NoContext
  /\ given = BareEntity
  /\ populated = NoEntity
  /\ repopulated = NoEntity
  /\ refs = NoRefs
  /\ oldRefs = NoRefs
  /\ newRefs = NoRefs
  /\ changed = FALSE
  /\ pc = "editor"
  /\ BulkIdle

editorVars ==
  <<heap, entity, context, given, populated, repopulated, refs, oldRefs, newRefs,
    changed, pc, bulkVars, calls, client>>

\* the editor commits an update and runs the listener; delivered is the
\* argument of the call of onChange; references: undefined is an absent
\* attribute
EditorUpdate ==
  /\ \E state \in EditorStates :
       IF plugin.enableReferences
       THEN \E last \in {LastReferences(plugin.lastReferences, Extracted(state))} :
              /\ plugin' = [plugin EXCEPT !.editorState = state,
                                          !.lastReferences = last]
              /\ delivered' = [editorState |-> state, references |-> last]
       ELSE /\ plugin' = [plugin EXCEPT !.editorState = state]
            /\ delivered' = [editorState |-> state]
  /\ UNCHANGED editorVars

\* the component renders with another enableReferences: the effect
\* registers the listener again
Rerender ==
  /\ plugin' = [plugin EXCEPT !.enableReferences = ~@]
  /\ UNCHANGED <<delivered, editorVars>>

NextEditor == EditorUpdate \/ Rerender

SpecEditor == InitEditor /\ [][NextEditor]_vars

----------------------------------------------------------------------------
(* useBatchPopulate.batchPopulate (admin/src/utils/populate-client.ts).    *)
(* A documentId is a number; the data of a successful populateBulk call    *)
(* holds the documentIds of the entities the server returned.              *)

BATCH_SIZE == 20

MaxIds == 41

Min(a, b) == IF a < b THEN a ELSE b

\* slice without the end index
Slice_ToEnd(ids, i) == SubSeq(ids, i + 1, Len(ids))

\* documentIds.slice(i, i + BATCH_SIZE)
Slice(ids, i) == SubSeq(ids, i + 1, Min(i + BATCH_SIZE, Len(ids)))

InitClient ==
  /\ \E n \in 0..MaxIds :
       client = [documentIds |-> [k \in 1..n |-> k],
                 i |-> 0,
                 results |-> <<>>,
                 sent |-> <<>>,
                 outcomes |-> <<>>,
                 awaiting |-> FALSE,
                 returned |-> FALSE]
  /\ calls = <<>>
  /\ plugin = EmptyObject
  /\ delivered = EmptyObject
  /\ heap = <<>>
  /\ entity = BareEntity
  /\ context = NoContext
  /\ given = BareEntity
  /\ populated = NoEntity
  /\ repopulated = NoEntity
  /\ refs = NoRefs
  /\ oldRefs = NoRefs
  /\ newRefs = NoRefs
  /\ changed = FALSE
  /\ pc = "client"
  /\ BulkIdle

clientVars ==
  <<heap, entity, context, given, populated, repopulated, refs, oldRefs, newRefs,
    changed, pc, bulkVars, calls, plugin, delivered>>

\* the loop test holds: the batch is sliced and populateBulk is called
BatchRequest ==
  /\ ~client.returned
  /\ ~client.awaiting
  /\ client.i < Len(client.documentIds)
  /\ client' = [client EXCEPT
                  !.sent = Append(@, Slice(client.documentIds, client.i)),
                  !.awaiting = TRUE]
  /\ UNCHANGED clientVars

\* populateBulk resolves: results.push(...result.data); i += BATCH_SIZE.
\* The server returns the requested entities it has, here all of them or
\* all but the first.
BatchResolved ==
  /\ client.awaiting
  /\ \E data \in {client.sent[Len(client.sent)], Tail(client.sent[Len(client.sent)])} :
       client' = [client EXCEPT
                    !.results = @ \o data,
                    !.outcomes = Append(@, [ok |-> TRUE, data |-> data]),
                    !.i = @ + BATCH_SIZE,
                    !.awaiting = FALSE]
  /\ UNCHANGED clientVars

\* populateBulk rejects: the catch logs the error; i += BATCH_SIZE
BatchRejected ==
  /\ client.awaiting
  /\ client' = [client EXCEPT
                  !.outcomes = Append(@, [ok |-> FALSE, data |-> <<>>]),
                  !.i = @ + BATCH_SIZE,
                  !.awaiting = FALSE]
  /\ UNCHANGED clientVars

\* the loop test fails: return results
BatchReturn ==
  /\ ~client.returned
  /\ ~client.awaiting
  /\ client.i >= Len(client.documentIds)
  /\ client' = [client EXCEPT !.returned = TRUE]
  /\ UNCHANGED clientVars

NextClient == BatchRequest \/ BatchResolved \/ BatchRejected \/ BatchReturn

SpecClient == InitClient /\ [][NextClient]_vars

----------------------------------------------------------------------------
(* Properties.                                                             *)

RECURSIVE NodesUnder(_, _)

\* the addresses reachable from an array of nodes
NodesUnder(h, rs) ==
  UNION {{rs[i]} \cup (IF HasChildren(h[rs[i]])
                       THEN NodesUnder(h, h[rs[i]].children) ELSE {}) :
         i \in 1..Len(rs)}

\* the nodes of the entity handed over, and of the entity returned
InputNodes == NodesUnder(heap, RootChildren(entity, Field))
OutputNodes == NodesUnder(heap, RootChildren(populated.e, Field))

IsReferenceNode(cell) == Get(cell, "type") \in {"strapi-image", "strapi-entry"}

\* C1: merge never modifies its input tree: after populateLexicalReferences
\* has returned, every node of the input tree has the attributes and the
\* children it had before the call.
MergeLeavesInputUnmodified ==
  pc = "populated" => DeepEntity(heap, entity, Field) = given

\* C2: an entry node is enriched only with a record of its own content type:
\* a node {documentId: d, contentType: T} that carries resolved data after
\* the merge carries the record resolved for (d, T).
EntryMatchedByIdentityPair ==
  pc = "populated" =>
    \A a \in OutputNodes :
      Get(heap[a], "type") = "strapi-entry" /\ "data" \in DOMAIN heap[a] =>
        /\ heap[a].data.documentId = heap[a].documentId
        /\ heap[a].data.collection = heap[a].contentType

\* C3: merge is idempotent: merging the merged entity again with the same
\* resolved lists returns an entity deeply equal to the first result.
MergeIdempotent ==
  pc = "repopulated" => repopulated.deep = populated.deep

\* C3 witness: a second merge after a first merge that resolved a reference.
MergeIdempotentWitness ==
  /\ pc = "repopulated"
  /\ populated.deep # given
  /\ \E a \in OutputNodes : "data" \in DOMAIN heap[a]
  /\ \E a \in OutputNodes :
       Get(heap[a], "type") = "strapi-image" /\ "metadata" \in DOMAIN heap[a]

\* C5: pass-through: a tree without 'strapi-image' and 'strapi-entry' nodes
\* is returned deeply equal to the input, whatever the resolved lists are.
PassThrough ==
  (pc = "populated" /\ \A a \in InputNodes : ~IsReferenceNode(heap[a])) =>
    populated.deep = given

\* C5 witness: a merge of a tree of several elements, none a reference node,
\* one below another, with both resolved lists non-empty.
PassThroughWitness ==
  /\ pc = "populated"
  /\ \A a \in InputNodes : ~IsReferenceNode(heap[a])
  /\ Len(RootChildren(entity, Field)) >= 2
  /\ \E a \in InputNodes : HasChildren(heap[a]) /\ heap[a].children # <<>>
  /\ context.populatedMedia # <<>>
  /\ context.populatedEntries # <<>>

\* Scenario C: the tree holds one entry reference, and the one resolved
\* record has a headline and no title, name or label.
ScenarioC ==
  /\ pc = "populated"
  /\ HasTree(given, Field)
  /\ given[Field].root.children = <<EntryNode>>
  /\ context.populatedEntries = <<PostT2>>

MergedScenarioCNode == heap[populated.e[Field].root.children[1]]

\* C9 as stated: in Scenario C the merged node keeps its pre-existing title.
ScenarioCTitleKept ==
  ScenarioC => MergedScenarioCNode.title = EntryNode.title

\* C9 as amended: an entry node merged with a record that has a string
\* headline and no title, name or label gets the headline as its title.
HeadlineBecomesTitle ==
  pc = "populated" =>
    \A a \in OutputNodes :
      ( /\ "data" \in DOMAIN heap[a]
        /\ \A c \in {"title", "name", "label"} : c \notin DOMAIN heap[a].data
        /\ Truthy(Get(heap[a].data, "headline"))
        /\ IsString(Get(heap[a].data, "headline")) ) =>
          /\ heap[a].title = heap[a].data.headline
          /\ heap[a].metadata.title = heap[a].data.headline

\* C9 witness: Scenario C has been merged and the title is the headline.
ScenarioCWitness ==
  ScenarioC /\ MergedScenarioCNode.title = "Hello"

\* the record of the title-selection runs, the title of the node before the
\* merge and after it
TitleRecord == context.populatedEntries[1]
PriorTitle == Get(given[Field].root.children[1], "title")
MergedTitle == heap[populated.e[Field].root.children[1]].title

\* the value of the first of title, name, label, headline, subject whose
\* value is not among the rejected ones, the prior title when there is none
FirstAccepted(rejected) ==
  IF Get(TitleRecord, "title") \notin rejected THEN TitleRecord.title
  ELSE IF Get(TitleRecord, "name") \notin rejected THEN TitleRecord.name
  ELSE IF Get(TitleRecord, "label") \notin rejected THEN TitleRecord.label
  ELSE IF Get(TitleRecord, "headline") \notin rejected THEN TitleRecord.headline
  ELSE IF Get(TitleRecord, "subject") \notin rejected THEN TitleRecord.subject
  ELSE PriorTitle

\* the values that are not strings, and those that are not non-empty strings
NotStrings == {UNDEF, JSNUM}
NotNonEmptyStrings == {UNDEF, JSNUM, ""}

\* C10 as stated: the merged title is the value of the first candidate
\* field, in the order title, name, label, headline, subject, whose value is
\* a string, the empty string included; the prior title when there is none.
TitleIsFirstString ==
  pc = "populated" => MergedTitle = FirstAccepted(NotStrings)

\* C10 as amended: the merged title is the value of the first candidate
\* field, in the order title, name, label, headline, subject, whose value is
\* a non-empty string; the prior title when there is none.
TitleIsFirstNonEmptyString ==
  pc = "populated" => MergedTitle = FirstAccepted(NotNonEmptyStrings)

\* C10 witness: a record whose title is a number and whose name and label
\* are strings: the merged title is the name.
TitleSelectionWitness ==
  /\ pc = "populated"
  /\ Get(TitleRecord, "title") = JSNUM
  /\ Get(TitleRecord, "name") = "name"
  /\ Get(TitleRecord, "label") = "label"
  /\ MergedTitle = "name"

\* C4: the result of extractReferences has no two media elements with the
\* same documentId and no two entries with the same documentId and
\* contentType.
NoDuplicateReferences ==
  pc = "extracted" =>
    /\ \A i, j \in 1..Len(refs.media) :
         refs.media[i].documentId = refs.media[j].documentId => i = j
    /\ \A i, j \in 1..Len(refs.entries) :
         ( /\ refs.entries[i].documentId = refs.entries[j].documentId
           /\ refs.entries[i].contentType = refs.entries[j].contentType ) => i = j

\* C4 witness: a tree in which the same media reference occurs at two depths
\* and the same entry reference occurs as well, extracted once each.
NoDuplicateReferencesWitness ==
  /\ pc = "extracted"
  /\ ~refs.threw
  /\ \E a, b \in InputNodes :
       /\ a # b
       /\ heap[a] = ImageNode
       /\ Get(heap[b], "type") = "strapi-image"
       /\ Get(heap[b], "documentId") = "m1"
       /\ HasChildren(heap[b])
       /\ a \in NodesUnder(heap, heap[b].children)
  /\ Len(refs.media) = 1

\* C7: extractReferences returns normally on every tree-shaped input,
\* malformed array elements included.
ExtractionTotal ==
  pc = "extracted" => ~refs.threw

\* the identities in a reference set
MediaIdentities(r) == {r.media[i].documentId : i \in 1..Len(r.media)}
EntryIdentities(r) ==
  {<<r.entries[i].documentId, r.entries[i].contentType>> : i \in 1..Len(r.entries)}

\* C6: on deduplicated reference sets hasReferencesChanged returns false
\* exactly when the media documentId sets are equal and the entry
\* (documentId, contentType) sets are equal.
ChangeDetectorSetSemantics ==
  pc = "compared" =>
    (changed = FALSE <=>
       /\ MediaIdentities(oldRefs) = MediaIdentities(newRefs)
       /\ EntryIdentities(oldRefs) = EntryIdentities(newRefs))

\* C6 witness: a set compared with a reordering of itself is unchanged.
ChangeDetectorWitness ==
  /\ pc = "compared"
  /\ changed = FALSE
  /\ oldRefs.media # newRefs.media
  /\ oldRefs.entries # newRefs.entries

\* the stored form of a fetched entity
StoredForm(e) ==
  store.entities[First({k \in 1..Len(store.entities) :
                          store.entities[k].documentId = e.documentId})]

\* C8: in bulk populate an error raised while extracting references from one
\* entity does not abort the operation: once the entities are fetched and
\* populate is on, the response is a success that holds every fetched
\* entity, the failing ones in their stored, unpopulated form.
BulkIsolatesEntityFailure ==
  (pc = "done" /\ fetched # <<>> /\ request.populate) =>
    /\ response.status = 200
    /\ Len(response.data) = Len(fetched)
    /\ \A i \in 1..Len(fetched) :
         extractReferences(heap, fetched[i], Field).threw =>
           response.data[i] = StoredForm(fetched[i])

RECURSIVE PathsOf(_)

\* the index paths of the nodes of a deep tree
PathsOf(nodes) ==
  UNION {{<<i>>} \cup (IF HasChildren(nodes[i])
                       THEN {<<i>> \o p : p \in PathsOf(nodes[i].children)}
                       ELSE {}) :
         i \in 1..Len(nodes)}

RECURSIVE NodeAt(_, _)

\* the node of a deep tree at an index path
NodeAt(nodes, p) ==
  IF Len(p) = 1 THEN nodes[p[1]] ELSE NodeAt(nodes[p[1]].children, Tail(p))

\* the tree handed to the merge and the tree it returned, as deep values
GivenTree == RootChildren(given, Field)
MergedTree == RootChildren(populated.deep, Field)

\* the index in the resolved list of the record matching a node's
\* documentId, 0 on a miss
MediaMatch(n) ==
  First({k \in 1..Len(context.populatedMedia) :
           context.populatedMedia[k].documentId = Get(n, "documentId")})
EntryMatch(n) ==
  First({k \in 1..Len(context.populatedEntries) :
           context.populatedEntries[k].documentId = Get(n, "documentId")})

IsMediaReference(n) ==
  IsObject(n) /\ Get(n, "type") = "strapi-image" /\ Truthy(Get(n, "documentId"))

IsEntryReference(n) ==
  IsObject(n) /\ Get(n, "type") = "strapi-entry" /\ Truthy(Get(n, "documentId"))

\* the src a media node gets from a record: thumbnail url, else url, else
\* the src it had
ExpectedSrc(n, m) ==
  IF Truthy(ThumbnailUrl(m)) THEN ThumbnailUrl(m)
  ELSE IF Truthy(Get(m, "url")) THEN m.url
  ELSE Get(n, "src")

\* C11: a 'strapi-image' node with a matching resolved media record is
\* merged into a node whose src is the record's thumbnail URL if it has one,
\* else the record's url, else the node's prior src, and whose metadata.url
\* is the record's url.
MediaMergedFromRecord ==
  pc = "populated" =>
    \A p \in PathsOf(GivenTree) :
      (IsMediaReference(NodeAt(GivenTree, p)) /\ MediaMatch(NodeAt(GivenTree, p)) # 0) =>
        /\ Get(NodeAt(MergedTree, p), "src") =
             ExpectedSrc(NodeAt(GivenTree, p),
                         context.populatedMedia[MediaMatch(NodeAt(GivenTree, p))])
        /\ Get(NodeAt(MergedTree, p).metadata, "url") =
             Get(context.populatedMedia[MediaMatch(NodeAt(GivenTree, p))], "url")

\* C11 witness: Scenario A: the node {documentId: m1, src: /old.png} merged
\* with a record with url /new.png and thumbnail url /new-thumb.png.
ScenarioAWitness ==
  /\ pc = "populated"
  /\ GivenTree = <<ImageNode>>
  /\ context.populatedMedia = <<MediaRecord("string", "string")>>
  /\ MergedTree[1].src = "/new-thumb.png"
  /\ MergedTree[1].metadata.url = "/new.png"

\* C12: lookup miss: a reference node whose documentId has no record in the
\* resolved list is merged into a node with the src, title, metadata and
\* data of the input node, and the merge returns an entity.
LookupMissKeepsNode ==
  pc = "populated" =>
    /\ HasTree(given, Field) => HasTree(populated.e, Field)
    /\ \A p \in PathsOf(GivenTree) :
         ( \/ IsMediaReference(NodeAt(GivenTree, p)) /\ MediaMatch(NodeAt(GivenTree, p)) = 0
           \/ IsEntryReference(NodeAt(GivenTree, p)) /\ EntryMatch(NodeAt(GivenTree, p)) = 0 ) =>
           \A k \in {"src", "title", "metadata", "data"} :
             /\ k \in DOMAIN NodeAt(MergedTree, p) <=> k \in DOMAIN NodeAt(GivenTree, p)
             /\ k \in DOMAIN NodeAt(GivenTree, p) =>
                  NodeAt(MergedTree, p)[k] = NodeAt(GivenTree, p)[k]

\* C12 witness: an entry node with title and metadata, above a paragraph,
\* merged with a resolved list that holds only a record of another
\* documentId: the merged node has its prior title.
LookupMissWitness ==
  /\ pc = "populated"
  /\ Len(GivenTree) = 1
  /\ DOMAIN EntryNode \subseteq DOMAIN GivenTree[1]
  /\ [k \in DOMAIN EntryNode |-> GivenTree[1][k]] = EntryNode
  /\ HasChildren(GivenTree[1]) /\ GivenTree[1].children # <<>>
  /\ context.populatedEntries = <<PostOther>>
  /\ MergedTree[1].title = "Old"

\* the positions in queries of the calls of populateMediaReferences and of
\* populateEntryReferences; the first call fetches the entities
MediaQueryIndices ==
  {i \in 1..Len(queries) : queries[i].uid = "plugin::upload.file"}
EntryQueryIndices ==
  {i \in 2..Len(queries) : queries[i].uid # "plugin::upload.file"}

\* no element occurs twice in a sequence
Distinct(seq) == \A i, j \in 1..Len(seq) : seq[i] = seq[j] => i = j

\* the media documentIds referenced by the fetched entities
FetchedMediaIds ==
  UNION {MediaIdentities(extractReferences(heap, fetched[i], Field)) :
           i \in 1..Len(fetched)}

\* C13: in bulk populate the media resolver is called once for the batch:
\* there is at most one media query, and once it is made its identifier list
\* holds every media documentId referenced by the fetched entities exactly
\* once.
MediaResolvedOncePerBatch ==
  /\ Cardinality(MediaQueryIndices) <= 1
  /\ \A i \in MediaQueryIndices :
       /\ Distinct(queries[i].ids)
       /\ {queries[i].ids[k] : k \in 1..Len(queries[i].ids)} = FetchedMediaIds

\* C13 witness: Scenario D: two fetched entities reference the media m1 and
\* the one media query was made with the identifier list [m1].
ScenarioDWitness ==
  /\ pc = "done"
  /\ Len(fetched) = 2
  /\ \A i \in 1..2 : MediaIdentities(extractReferences(heap, fetched[i], Field)) = {"m1"}
  /\ \E i \in MediaQueryIndices : queries[i].ids = <<"m1">>
  /\ response.status = 200

\* C14: in bulk populate the entry references collected from all entities
\* hold no (documentId, contentType) pair twice, and no per-content-type
\* identifier filter holds a documentId twice.
EntryReferencesDeduplicated ==
  /\ Distinct(allRefs.entries)
  /\ \A i \in EntryQueryIndices : Distinct(queries[i].ids)

\* C16: when populateMediaReferences has returned, it has made no query for
\* an empty identifier list and one query for a non-empty list, and it
\* returned records of the store whose documentId is in the list: all of
\* them when the query returned, none when it threw.
MediaResolverQueriesOnce ==
  pc = "bulk:entries" =>
    /\ Cardinality(MediaQueryIndices) = (IF allRefs.media = <<>> THEN 0 ELSE 1)
    /\ \A k \in 1..Len(context.populatedMedia) :
         /\ \E j \in 1..Len(store.media) : store.media[j] = context.populatedMedia[k]
         /\ InIds(context.populatedMedia[k].documentId, allRefs.media)
    /\ MediaQueryIndices \cap thrown = {} =>
         \A j \in 1..Len(store.media) :
           InIds(store.media[j].documentId, allRefs.media) =>
             \E k \in 1..Len(context.populatedMedia) :
               context.populatedMedia[k] = store.media[j]

\* C16 witness: populateMediaReferences was called with the identifier of a
\* media that has no record: one query, which returned, and an empty result.
MediaResolverMissWitness ==
  /\ pc = "bulk:entries"
  /\ allRefs.media = <<"m1">>
  /\ store.media = <<>>
  /\ Cardinality(MediaQueryIndices) = 1
  /\ MediaQueryIndices \cap thrown = {}
  /\ context.populatedMedia = <<>>

\* the content types among the collected entry references
ReferencedContentTypes ==
  {allRefs.entries[k].contentType : k \in 1..Len(allRefs.entries)}

\* C17: when populateEntryReferences has made its queries, there is exactly
\* one per distinct contentType of its input; results holds every record
\* returned for a contentType whose query returned and no record of a
\* contentType whose query threw; and a query that threw does not make the
\* request fail.
EntryResolverIsolatesGroupFailure ==
  /\ (pc = "bulk:entries" /\ groups = <<>>) =>
       /\ {queries[i].uid : i \in EntryQueryIndices} = ReferencedContentTypes
       /\ Cardinality(EntryQueryIndices) = Cardinality(ReferencedContentTypes)
       /\ \A i \in EntryQueryIndices :
            IF i \in thrown
            THEN \A k \in 1..Len(results) : results[k].collection # queries[i].uid
            ELSE \A j \in 1..Len(store.entries) :
                   ( /\ store.entries[j].collection = queries[i].uid
                     /\ InIds(store.entries[j].documentId, queries[i].ids) ) =>
                       \E k \in 1..Len(results) : results[k] = store.entries[j]
  /\ (pc = "done" /\ EntryQueryIndices # {}) => response.status = 200

\* C17 witness: the queries of two content types were made, the first threw
\* and the second returned its record; the request succeeded.
EntryResolverWitness ==
  /\ pc = "done"
  /\ Cardinality(EntryQueryIndices) = 2
  /\ \E i \in EntryQueryIndices : i \in thrown /\ queries[i].uid = "T1"
  /\ results = <<PostT2>>
  /\ response.status = 200

\* C15: extractReferences appends an entry reference only for a node with
\* both documentId and contentType: no element of entries lacks a
\* contentType.
EntryNeedsContentType ==
  (pc = "extracted" /\ ~refs.threw) =>
    \A i \in 1..Len(refs.entries) : Truthy(refs.entries[i].contentType)

RECURSIVE PreOrder(_, _)

\* the addresses of the nodes under an array in depth-first pre-order: a
\* node, then the nodes under its children, then its later siblings
PreOrder(h, rs) ==
  IF rs = <<>> THEN <<>>
  ELSE <<Head(rs)>>
         \o (IF HasChildren(h[Head(rs)]) THEN PreOrder(h, h[Head(rs)].children) ELSE <<>>)
         \o PreOrder(h, Tail(rs))

AppendNew(front, x) ==
  IF \E i \in 1..Len(front) : front[i] = x THEN front ELSE Append(front, x)

RECURSIVE FirstOccurrences(_)

\* a sequence without the elements that occur earlier in it
FirstOccurrences(seq) ==
  IF seq = <<>> THEN <<>>
  ELSE AppendNew(FirstOccurrences(SubSeq(seq, 1, Len(seq) - 1)), seq[Len(seq)])

\* the references of the nodes of the tree handed to the extractor, in
\* pre-order
MediaInPreOrder ==
  LET walk == PreOrder(heap, RootChildren(entity, Field))
      isMedia(a) == IsMediaReference(heap[a])
      found == SelectSeq(walk, isMedia)
  IN [i \in 1..Len(found) |-> [documentId |-> heap[found[i]].documentId]]
EntriesInPreOrder ==
  LET walk == PreOrder(heap, RootChildren(entity, Field))
      isEntry(a) == IsEntryReference(heap[a])
      found == SelectSeq(walk, isEntry)
  IN [i \in 1..Len(found) |->
        [documentId |-> heap[found[i]].documentId,
         contentType |-> Get(heap[found[i]], "contentType")]]

\* C18: the media list and the entries list returned by extractReferences
\* are the references of the tree in order of first occurrence in a
\* depth-first pre-order walk that descends into the children of every
\* node, reference nodes included.
ReferencesInPreOrder ==
  (pc = "extracted" /\ ~refs.threw) =>
    /\ refs.media = FirstOccurrences(MediaInPreOrder)
    /\ refs.entries = FirstOccurrences(EntriesInPreOrder)

\* C18 witness: an entry node above the image m2, followed by the image m1:
\* m2 is listed before m1.
ReferencesInPreOrderWitness ==
  /\ pc = "extracted"
  /\ RootChildren(entity, Field) = <<1, 3>>
  /\ Get(heap[1], "type") = "strapi-entry"
  /\ HasChildren(heap[1]) /\ heap[1].children = <<2>>
  /\ heap[2] = OtherImageNode
  /\ heap[3] = ImageNode
  /\ refs.media = <<[documentId |-> "m2"], [documentId |-> "m1"]>>
  /\ Len(refs.entries) = 1

\* C19: merge preserves the shape of the tree: the returned tree has a node
\* at exactly the index paths of the input tree, each with the type and the
\* documentId of the input node at that path; an element that is not an
\* object is returned as it is.
TreeShapePreserved ==
  pc = "populated" =>
    /\ PathsOf(MergedTree) = PathsOf(GivenTree)
    /\ \A p \in PathsOf(GivenTree) :
         /\ Get(NodeAt(MergedTree, p), "type") = Get(NodeAt(GivenTree, p), "type")
         /\ Get(NodeAt(MergedTree, p), "documentId") =
              Get(NodeAt(GivenTree, p), "documentId")
         /\ ~IsObject(NodeAt(GivenTree, p)) => NodeAt(MergedTree, p) = NodeAt(GivenTree, p)

\* C19 witness: a merge of a tree with a node below another, an entry
\* reference that is not resolved and a media reference that is.
TreeShapeWitness ==
  /\ pc = "populated"
  /\ \E p \in PathsOf(GivenTree) : Len(p) = 2
  /\ \E p \in PathsOf(GivenTree) :
       IsEntryReference(NodeAt(GivenTree, p)) /\ EntryMatch(NodeAt(GivenTree, p)) = 0
  /\ \E p \in PathsOf(GivenTree) :
       /\ IsMediaReference(NodeAt(GivenTree, p))
       /\ MediaMatch(NodeAt(GivenTree, p)) # 0
       /\ NodeAt(MergedTree, p) # NodeAt(GivenTree, p)

\* C20: populateLexicalReferences returns the entity itself when the field
\* is not set or has no root.children; otherwise the returned entity has the
\* fields of the input, all but the lexical field with the input's values,
\* and the lexical field and its root have the input's attributes, all but
\* root.children with the input's values.
OnlyRootChildrenReplaced ==
  pc = "populated" =>
    IF ~HasTree(entity, Field) THEN populated.e = entity
    ELSE /\ DOMAIN populated.e = DOMAIN entity
         /\ \A k \in DOMAIN entity \ {Field} : populated.e[k] = entity[k]
         /\ DOMAIN populated.e[Field] = DOMAIN entity[Field]
         /\ \A k \in DOMAIN entity[Field] \ {"root"} :
              populated.e[Field][k] = entity[Field][k]
         /\ DOMAIN populated.e[Field].root = DOMAIN entity[Field].root
         /\ \A k \in DOMAIN entity[Field].root \ {"children"} :
              populated.e[Field].root[k] = entity[Field].root[k]

\* C20 witness: a merge that changed the tree and returned the entity with
\* its slug and the field's version.
OnlyRootChildrenReplacedWitness ==
  /\ pc = "populated"
  /\ HasTree(entity, Field)
  /\ populated.deep # given
  /\ populated.e[Field].root.children # entity[Field].root.children
  /\ populated.e.slug = "post"
  /\ populated.e[Field].version = "1"

\* C25: extractReferences of an input without root.children (no object, {},
\* no root, a root without children) returns {media: [], entries: []} and
\* does not throw.
ExtractWithoutTree ==
  (pc = "extracted" /\ ~HasTree(entity, Field)) => refs = NoRefs

\* C25 witness: Scenario E: extractReferences({}) has returned the empty
\* reference set.
ScenarioEWitness ==
  /\ pc = "extracted"
  /\ entity = EntityEmptyField
  /\ refs = NoRefs

\* the keys of a media node's metadata that the claim names standard, and
\* the keys populateImageNode takes from the record
StandardMediaKeys ==
  {"url", "alternativeText", "caption", "width", "height", "mime", "size", "updatedAt"}
RecordMediaKeys == StandardMediaKeys \cup {"formats"}

\* the metadata a node carries, {} when it has none
MetadataOf(n) == IF "metadata" \in DOMAIN n THEN n.metadata ELSE EmptyObject

\* the value populateImageNode stores for a key of the record
RecordValue(m, k) == IF k = "formats" THEN Optional(m, "formats") ELSE Get(m, k)

\* the media reference nodes of the given tree that have a record, with
\* the metadata they had (prior), the merged metadata (merged) and the record
ResolvedMedia ==
  {[prior |-> MetadataOf(NodeAt(GivenTree, p)),
    merged |-> NodeAt(MergedTree, p).metadata,
    record |-> context.populatedMedia[MediaMatch(NodeAt(GivenTree, p))]] :
     p \in {q \in PathsOf(GivenTree) :
              /\ IsMediaReference(NodeAt(GivenTree, q))
              /\ MediaMatch(NodeAt(GivenTree, q)) # 0}}

\* C26 as stated: the merged metadata of a resolved media node has the
\* record's values for url, alternativeText, caption, width, height, mime,
\* size and updatedAt, and every other prior metadata key with its prior
\* value.
MediaMetadataStandardKeys ==
  pc = "populated" =>
    \A n \in ResolvedMedia :
      /\ \A k \in StandardMediaKeys : Get(n.merged, k) = Get(n.record, k)
      /\ \A k \in DOMAIN n.prior \ StandardMediaKeys :
           k \in DOMAIN n.merged /\ n.merged[k] = n.prior[k]

\* C26 as amended: the merged metadata of a resolved media node has the
\* record's values for url, alternativeText, caption, width, height,
\* formats, mime, size and updatedAt, and every other prior metadata key
\* with its prior value.
MediaMetadataRecordKeys ==
  pc = "populated" =>
    \A n \in ResolvedMedia :
      /\ \A k \in RecordMediaKeys : Get(n.merged, k) = RecordValue(n.record, k)
      /\ \A k \in DOMAIN n.prior \ RecordMediaKeys :
           k \in DOMAIN n.merged /\ n.merged[k] = n.prior[k]

\* C26 witness: a node with a custom metadata key, a stale url and stale
\* formats merged with a record: the custom key is kept, url and formats
\* are the record's.
MediaMetadataWitness ==
  /\ pc = "populated"
  /\ GivenTree = <<ImageNodeStale>>
  /\ context.populatedMedia = <<MediaThumb>>
  /\ MergedTree[1].metadata.custom = "keep"
  /\ MergedTree[1].metadata.url = "/new.png"
  /\ MergedTree[1].metadata.formats = <<MediaThumb.formats>>

StandardEntryKeys == {"title", "publishedAt", "updatedAt", "locale", "status"}

\* the entry reference nodes of the given tree that have a contentType and
\* a record
ResolvedEntries ==
  {[prior |-> MetadataOf(NodeAt(GivenTree, p)),
    merged |-> NodeAt(MergedTree, p),
    record |-> context.populatedEntries[EntryMatch(NodeAt(GivenTree, p))]] :
     p \in {q \in PathsOf(GivenTree) :
              /\ IsEntryReference(NodeAt(GivenTree, q))
              /\ Truthy(Get(NodeAt(GivenTree, q), "contentType"))
              /\ EntryMatch(NodeAt(GivenTree, q)) # 0}}

\* C27: the merged metadata.status of a resolved entry node is 'published'
\* exactly when the record's publishedAt is set and 'draft' otherwise, its
\* data is the record, and the node's prior custom metadata keys are kept.
EntryMetadataMerged ==
  pc = "populated" =>
    \A n \in ResolvedEntries :
      /\ n.merged.metadata.status =
           (IF "publishedAt" \in DOMAIN n.record THEN "published" ELSE "draft")
      /\ n.merged.data = n.record
      /\ \A k \in DOMAIN n.prior \ StandardEntryKeys :
           k \in DOMAIN n.merged.metadata /\ n.merged.metadata[k] = n.prior[k]

\* C27 witness: an entry node with a custom metadata key merged with a
\* record that has publishedAt: published, the record as data, the key kept.
EntryMetadataWitness ==
  /\ pc = "populated"
  /\ context.populatedEntries = <<PostT1>>
  /\ Len(GivenTree) = 1
  /\ IsEntryReference(GivenTree[1])
  /\ Get(MetadataOf(GivenTree[1]), "custom") = "keep"
  /\ MergedTree[1].metadata.status = "published"
  /\ MergedTree[1].metadata.custom = "keep"
  /\ MergedTree[1].data = PostT1


\* C24: across any sequence of requests to the four endpoints the handlers
\* issue only read queries (findOne, findMany) and no step of any handler
\* changes the content of the store.
StoreOnlyRead ==
  /\ [](\A i \in 1..Len(queries) : queries[i].op \in {"findOne", "findMany"})
  /\ [][store' = store]_vars

StoreOnlyReadWitness ==
  /\ pc = "done"
  /\ request.endpoint = "populate"
  /\ Len(queries) >= 3
  /\ store.media # <<>>
  /\ store.entries # <<>>


\* the store has a media record with this documentId
MediaStored(id) == \E i \in 1..Len(store.media) : store.media[i].documentId = id

MediaNotStored(id) == ~MediaStored(id)

\* the store has a record with this documentId under this contentType
EntryStored(e) ==
  \E i \in 1..Len(store.entries) :
    /\ store.entries[i].documentId = e.documentId
    /\ store.entries[i].collection = e.contentType

EntryNotStored(e) == ~EntryStored(e)

\* a validate-references request answered with no store query having failed
Validation ==
  /\ pc = "done"
  /\ request.endpoint = "validate-references"
  /\ thrown = {}

\* C21: validate-references puts a media documentId in valid iff the store
\* has a media record with that documentId, an entry {documentId,
\* contentType} in valid iff the store has a record with that documentId
\* under that contentType, and every other input in invalid.
ValidateClassifiesByStore ==
  Validation =>
    /\ response.data.media.valid = SelectSeq(request.media, MediaStored)
    /\ response.data.media.invalid = SelectSeq(request.media, MediaNotStored)
    /\ response.data.entries.valid = SelectSeq(request.entries, EntryStored)
    /\ response.data.entries.invalid = SelectSeq(request.entries, EntryNotStored)


\* a request is being handled
Handling == pc \notin {"idle", "done"}

\* C22: every request to populate, populate-bulk, references and
\* validate-references eventually completes, given that every store query
\* returns or throws; it has no response while it is handled, has one when
\* it completes, and the response is written only by the step that
\* completes it, also when a store query failed during resolution.
EveryRequestCompletesOnce ==
  /\ [](Handling => response = EmptyObject)
  /\ [](pc = "done" => response # EmptyObject /\ response.status \in {200, 400, 404, 500})
  /\ [][response' # response =>
          \/ Handling /\ pc' = "done"
          \/ ~Handling /\ response' = EmptyObject]_vars
  /\ Handling ~> (pc = "done")

\* a request completed after a store query of its resolution threw
StoreFailureCompleted ==
  /\ pc = "done"
  /\ request.endpoint \in {"populate", "populate-bulk"}
  /\ thrown # {}
  /\ Len(queries) >= 2
  /\ response.status = 200


RECURSIVE ResolveEntries(_)

\* populateEntryReferences when no query throws: the records of each group,
\* in the order of the groups
ResolveEntries(gs) ==
  IF gs = <<>> THEN <<>>
  ELSE FindMany(Collection(Head(gs).contentType), Head(gs).documentIds)
         \o ResolveEntries(Tail(gs))

\* the context populateEntity builds from the references of one entity
OwnContext(references) ==
  [NoContext EXCEPT
     !.populatedMedia = FindMany(store.media, ReferencesOf(references).media),
     !.populatedEntries = ResolveEntries(GroupByContentType(references.entries, <<>>))]

PopulatedAlone(loaded) ==
  The({DeepEntity(done.h, done.e, Field) :
         done \in {populateLexicalReferences(loaded.h, loaded.e, Field,
                     OwnContext(extractReferences(loaded.h, loaded.e, Field)))}})

\* the data of the response of populateEntity for the stored entity v, when
\* no query throws
SinglePopulate(v) == The({PopulatedAlone(loaded) : loaded \in {LoadEntity(<<>>, v)}})

\* the stored entities a populate-bulk request names, as its query returns them
RequestedEntities == FindMany(store.entities, request.documentIds)

\* a populate-bulk request answered with populated entities, no query failed
BulkPopulated ==
  /\ pc = "done"
  /\ "documentIds" \in DOMAIN request
  /\ request.populate
  /\ thrown = {}
  /\ response.status = 200

\* C28: each entity in the populate-bulk response is deeply equal to the
\* entity the single populate endpoint returns for it against the same
\* store, whatever other entities are in the batch.
BulkAgreesWithSingle ==
  BulkPopulated =>
    /\ Len(response.data) = Len(RequestedEntities)
    /\ \A i \in 1..Len(response.data) :
         response.data[i] = SinglePopulate(RequestedEntities[i])


\* the deep value populateLexicalReferences returns for the entity with deep
\* value v when no other call is in flight
ResultAlone(v) ==
  The({The({DeepEntity(done.h, done.e, Field) :
              done \in {populateLexicalReferences(loaded.h, loaded.e, Field, context)}}) :
         loaded \in {LoadEntity(<<>>, v)}})

\* C23: whatever the interleaving of the steps of two populate calls on
\* different entities, the result of each call is deeply equal to the
\* result it produces when it runs alone with the same resolved records.
ConcurrentCallsIndependent ==
  \A c \in DOMAIN calls :
    calls[c].returned =>
      DeepEntity(heap, calls[c].result, Field) = ResultAlone(calls[c].given)

\* the first call has returned an entity it populated while the second
\* call, started before, is inside the children of a node of its own
ConcurrentCallsWitness ==
  /\ DOMAIN calls = CallIds
  /\ calls[1].returned
  /\ DeepEntity(heap, calls[1].result, Field) # calls[1].given
  /\ Len(calls[2].stack) = 2


\* onChange was last called by a listener with enableReferences on
DeliveredReferences == "references" \in DOMAIN delivered

\* C29: with enableReferences on, after every update the references passed
\* to onChange and the stored last references have the media documentId set
\* and the entry (documentId, contentType) set of extractReferences of the
\* current editor state; the stored value changes only on an update for
\* which hasReferencesChanged reports a change; onChange is called on every
\* update, with the updated editor state.
OnChangeReferencesCurrent ==
  /\ [](DeliveredReferences =>
          /\ MediaIdentities(delivered.references)
               = MediaIdentities(Extracted(plugin.editorState))
          /\ EntryIdentities(delivered.references)
               = EntryIdentities(Extracted(plugin.editorState))
          /\ plugin.lastReferences = delivered.references)
  /\ []("editorState" \in DOMAIN delivered => delivered.editorState = plugin.editorState)
  /\ [][plugin'.editorState # plugin.editorState =>
          delivered'.editorState = plugin'.editorState]_vars
  /\ [][plugin'.lastReferences # plugin.lastReferences =>
          /\ plugin.enableReferences
          /\ hasReferencesChanged(plugin.lastReferences, Extracted(plugin'.editorState))]_vars

\* an update that reorders the references: onChange receives the stored
\* list, whose order differs from the order in the editor state
OnChangeWitness ==
  /\ DeliveredReferences
  /\ Len(delivered.references.media) = 2
  /\ delivered.references # Extracted(plugin.editorState)


RECURSIVE Flatten(_)

\* the concatenation of a sequence of sequences
Flatten(seqs) == IF seqs = <<>> THEN <<>> ELSE Head(seqs) \o Flatten(Tail(seqs))

\* the data of the batches answered so far, nothing for a failed batch
AnsweredData == [k \in 1..Len(client.outcomes) |-> client.outcomes[k].data]

\* the number of batches of at most BATCH_SIZE that n documentIds make
BatchCount(n) == (n + BATCH_SIZE - 1) \div BATCH_SIZE

\* C30: batchPopulate sends the documentIds in consecutive batches of at
\* most 20, one request at a time, every documentId in exactly one batch;
\* a failed batch contributes no result and the later batches are still
\* sent; the returned list is the concatenation, in batch order, of the
\* data of the successful batches.
BatchesSequentialAndIsolated ==
  /\ \A k \in 1..Len(client.sent) :
       Len(client.sent[k]) \in 1..BATCH_SIZE
  /\ Flatten(client.sent)
       = SubSeq(client.documentIds, 1, Len(Flatten(client.sent)))
  /\ Len(client.sent) - Len(client.outcomes) = (IF client.awaiting THEN 1 ELSE 0)
  /\ \A k \in 1..Len(client.outcomes) :
       ~client.outcomes[k].ok => client.outcomes[k].data = <<>>
  /\ client.results = Flatten(AnsweredData)
  /\ client.returned =>
       /\ Flatten(client.sent) = client.documentIds
       /\ Len(client.sent) = BatchCount(Len(client.documentIds))
       /\ Len(client.outcomes) = Len(client.sent)

\* three batches, the second failed, the third sent and answered
BatchFailureWitness ==
  /\ client.returned
  /\ Len(client.sent) = 3
  /\ client.outcomes[1].ok
  /\ ~client.outcomes[2].ok
  /\ client.outcomes[3].ok
  /\ client.results = client.sent[1] \o client.sent[3]

====
